---- MODULE Spec2Model ----
(***************************************************************************)
(* State-machine model of the SqliteDriver scheduling engine of hypercron *)
(* (src/src/driver/sqlite.driver.ts): the cron_jobs table, the handler    *)
(* registry, the activeJobs timer map, the Node timers created by         *)
(* scheduleJobExecution, the executeJob pipelines in flight, and the      *)
(* refresh / cleanup intervals.                                           *)
(*                                                                         *)
(* Time is the integer clock Date.now(), in model ticks.  Node measures   *)
(* a timer's delay on its own monotonic clock: the callback may run any   *)
(* time after the deadline, and as early as one tick of Date.now() before *)
(* it.  An action is the driver code between two suspension points (an    *)
(* await of a public method, the handler call, the backoff sleep, a timer *)
(* wait): it runs without interleaving on the single JavaScript thread,   *)
(* and the clock may advance between any two actions.                     *)
(***************************************************************************)
EXTENDS Integers, Sequences, FiniteSets, TLC

\* ---------------------------------------------------------------- bounds
MaxTime == 2
MaxCalls == 3
MaxExecs == 2
MaxOrphans == 1
MaxBackoffTime == 8
MaxPending == 2
MaxEarly == 1
RestartHorizon == 4

\* ------------------------------------------------------ configuration
\* The constructor's options, at model scale.  The clock counts days, so
\* the 24 * 60 * 60 * 1000 of the retention cutoffs is one tick.
DayLength == 1
chunkSize == 1
lookAheadWindow == 1
RetryBaseDelays == {1}
RetryMaxDelays == {1}
\* retry options of the backoff runs: maxAttempts, baseDelay, maxDelay
BackoffMaxAttempts == 0..4
BackoffBaseDelays == 1..2
BackoffMaxDelays == 1..4
completedJobsRetentionDays == 0
cancelledJobsRetentionDays == 1

Ids == {"a", "b"}
\* retry.maxAttempts of the configuration: config.retry?.maxAttempts ?? 3
\* keeps any number, 0 included; 1 is "no retry".
RetryMaxAttempts == {0, 1, 2}
\* config.onError: not given, a callback that returns, or one that throws.
OnErrorOptions == {"none", "returns", "throws"}
\* Date.now() in a timer callback can still be one tick short of the
\* deadline the timer was armed for.
TimerSlack == 1
CronPeriods == {2}
Times == 0..MaxTime

\* autoCleanup.enabled of the configuration.
AutoCleanupOptions == BOOLEAN

\* SQL NULL / JavaScript null for the integer columns.
Null == -1
\* No row for the identifier in cron_jobs.
NoJob == [id |-> 0, cron_expression |-> Null, specific_time |-> Null,
          identifier |-> "", status |-> "none", next_run |-> Null,
          last_run |-> Null, run_count |-> 0, updated_at |-> Null]
\* The handler functions the application passes to schedule().
Handlers == {"h1", "h2"}
\* this.handlers.get(identifier) === undefined
NoHandler == ""
\* No entry for the identifier in the activeJobs map.
NoTimer == [deadline |-> Null, pending |-> FALSE]

Min(x, y) == IF x <= y THEN x ELSE y
Max(x, y) == IF x >= y THEN x ELSE y

RECURSIVE Pow2(_)
Pow2(n) == IF n <= 0 THEN 1 ELSE 2 * Pow2(n - 1)

\* A number that is not a time: NaN, or the getTime() of an invalid Date.
\* It compares false with every number and is stored by SQLite as NULL.
NaN == -2

\* ScheduleInput = string | number | Date: a cron string (valid, with a
\* period, or rejected by the parser), an absolute timestamp, or a number
\* or Date that is not a time.
ScheduleInputs ==
    [kind : {"cron"}, period : CronPeriods, t : {Null}]
      \cup [kind : {"invalid"}, period : {0}, t : {Null}]
      \cup [kind : {"time"}, period : {0}, t : Times \ {0}]
      \cup [kind : {"nan"}, period : {0}, t : {NaN}]

\* (variant: a slot at the current instant itself is returned)
CronNextInclusive(period, t) == ((t + period - 1) \div period) * period

\* CronExpressionParser.parse(expr).next(): the first slot of the period
\* strictly after the current instant.
CronNext(period, t) == ((t \div period) + 1) * period

VARIABLES
    now,            \* Date.now()
    cron_jobs,      \* the rows of the cron_jobs table
    handlers,       \* this.handlers: identifier -> handler or NoHandler
    activeJobs,     \* this.activeJobs: identifier -> timer handle or NoTimer
    orphans,        \* pending timers no longer referenced by activeJobs
    execs,          \* executeJob pipelines in flight, per identifier
    isRunning,      \* this.isRunning
    isInitialized,  \* this.isInitialized
    db,             \* this.db: "none" | "open" | "closed"
    refreshTimer,   \* this.refreshTimer !== null
    autoCleanupTimer, \* this.autoCleanupTimer !== null
    loops,          \* live setInterval loops: [refresh, cleanup]
    autoCleanupEnabled, \* this.autoCleanupEnabled
    maxRetryAttempts, \* this.maxRetryAttempts
    onErrorHandler, \* this.onErrorHandler
    retryBaseDelay, \* this.retryBaseDelay
    retryMaxDelay,  \* this.retryMaxDelay
    early,          \* timer callbacks run before Date.now() reached the deadline
    pend,           \* public calls suspended at an await, in resumption order
    leaked,         \* open DatabaseSync objects this.db no longer refers to
    nextId,         \* number of rows inserted so far (stands for randomUUID)
    calls,          \* number of facade calls made so far
    lastEvent       \* history: the operation that produced this state

vars == <<now, cron_jobs, handlers, activeJobs, orphans, execs, isRunning,
          isInitialized, db, refreshTimer, autoCleanupTimer, loops,
          autoCleanupEnabled, maxRetryAttempts, onErrorHandler,
          retryBaseDelay, retryMaxDelay, early, pend, leaked, nextId, calls, lastEvent>>

\* SELECT * FROM cron_jobs WHERE identifier = ?, .get(): a row with the
\* identifier, or nothing.
SelectJob(table, identifier) ==
    IF \E r \in table : r.identifier = identifier
    THEN CHOOSE r \in table : r.identifier = identifier
    ELSE NoJob

\* The table as the driver reads it, one identifier at a time.
Read(table) == [i \in Ids |-> SelectJob(table, i)]

store == Read(cron_jobs)

\* The identifiers with a registered handler: this.handlers.has(i)
Registered(hs) == {i \in Ids : hs[i] # NoHandler}

\* new Map()
NoHandlers == [i \in Ids |-> NoHandler]

\* History record of the last operation: its name, identifier and outcome,
\* for a finished executeJob the number of handler attempts it made,
\* whether the last attempt failed and how often onError was called, and
\* for a cleanup pass the two deletion counts it returned.
Event(op, id, res) ==
    [op |-> op, id |-> id, res |-> res, prev |-> "", attempts |-> 0,
     failed |-> FALSE, onError |-> 0, completed |-> 0, cancelled |-> 0]

\* The outcome of a status UPDATE (cancel, pause, resume): whether a row
\* was changed, and the status it had.
\* (variant: result.changes >= 0, true whether or not a row matched)
StatusEventAlwaysTrue(op, id, st) ==
    [Event(op, id, "true") EXCEPT !.prev = st[id].status]

\* A step that completes no operation: a call suspends, a continuation
\* moves on in the queue, the clock advances.
Quiet == Event("", "", "")

StatusEvent(op, id, st) ==
    [Event(op, id, IF st[id] = NoJob THEN "false" ELSE "true")
        EXCEPT !.prev = st[id].status]

\* The engine as constructed, with automatic cleanup (the default),
\* retry: { maxAttempts: 1 } and an onError callback that returns.  The
\* other options are those of StartedInit and BackoffInit.
Init ==
    /\ now = 0
    /\ cron_jobs = {}
    /\ handlers = NoHandlers
    /\ activeJobs = [i \in Ids |-> NoTimer]
    /\ orphans = [i \in Ids |-> <<>>]
    /\ execs = [i \in Ids |-> <<>>]
    /\ isRunning = FALSE
    /\ isInitialized = FALSE
    /\ db = "none"
    /\ refreshTimer = FALSE
    /\ autoCleanupTimer = FALSE
    /\ loops = [refresh |-> 0, cleanup |-> 0]
    /\ autoCleanupEnabled = TRUE
    /\ maxRetryAttempts = 1
    /\ onErrorHandler = "returns"
    /\ retryBaseDelay \in RetryBaseDelays
    /\ retryMaxDelay \in RetryMaxDelays
    /\ early = 0
    /\ pend = <<>>
    /\ leaked = 0
    /\ nextId = 0
    /\ calls = 0
    /\ lastEvent = Event("new", "", "")

\* ------------------------------------------------------------ timer set
\* The timers are the pair (activeJobs map, pending timers the map no
\* longer references).  A handle overwritten or deleted from the map
\* without clearTimeout stays pending in the Node timer queue.
InsertSorted(seq, d) ==
    LET k == Cardinality({i \in 1..Len(seq) : seq[i] <= d})
    IN  SubSeq(seq, 1, k) \o <<d>> \o SubSeq(seq, k + 1, Len(seq))

RemoveAt(seq, i) == SubSeq(seq, 1, i - 1) \o SubSeq(seq, i + 1, Len(seq))

Timers(aj, orph) == [aj |-> aj, orph |-> orph]

\* Map.set / Map.delete on activeJobs: the previous handle, if it is still
\* pending, is dropped without being cleared.
DropHandle(ts, id) ==
    IF ts.aj[id].pending
    THEN [ts.orph EXCEPT ![id] = InsertSorted(@, ts.aj[id].deadline)]
    ELSE ts.orph

scheduleJobExecution(ts, id, nextRun, t) ==
    Timers([ts.aj EXCEPT ![id] =
                [deadline |-> t + Max(0, nextRun - t), pending |-> TRUE]],
           DropHandle(ts, id))

\* (variant: the entry is left in the map)
clearJobExecutionSkipped(ts, id) == ts

clearJobExecution(ts, id) ==
    Timers([ts.aj EXCEPT ![id] = NoTimer], ts.orph)

activeJobsDelete(ts, id) ==
    Timers([ts.aj EXCEPT ![id] = NoTimer], DropHandle(ts, id))

clearAllTimers(ts) ==
    Timers([i \in Ids |-> NoTimer], ts.orph)

\* ----------------------------------------------------------- chunk load
\* WHERE status = 'active' AND next_run <= windowEnd AND next_run > now
InWindow(row, t) ==
    /\ row.status = "active"
    /\ row.next_run <= t + lookAheadWindow
    /\ row.next_run > t

\* ORDER BY next_run: rows with equal next_run come in rowid order, which
\* is insertion order.
Before(r1, r2) ==
    \/ r1.next_run < r2.next_run
    \/ r1.next_run = r2.next_run /\ r1.id < r2.id

\* (variant: the LIMIT clause dropped)
ChunkNoLimit(st, t) == {i \in Ids : InWindow(st[i], t)}

\* LIMIT chunkSize
Chunk(st, t) ==
    LET elig == {i \in Ids : InWindow(st[i], t)}
    IN  {i \in elig :
            Cardinality({j \in elig : Before(st[j], st[i])}) < chunkSize}

\* for (const job of jobs) if (handlers.has(...)) scheduleJobExecution(...)
RECURSIVE ArmAll(_, _, _, _)
ArmAll(ts, ids, st, t) ==
    IF ids = {} THEN ts
    ELSE LET i == CHOOSE x \in ids : \A y \in ids : x = y \/ Before(st[x], st[y])
         IN  ArmAll(scheduleJobExecution(ts, i, st[i].next_run, t),
                    ids \ {i}, st, t)

loadAndScheduleChunk(ts, st, hs, t) ==
    ArmAll(clearAllTimers(ts), Chunk(st, t) \cap Registered(hs), st, t)

\* --------------------------------------------------- schedule-input parse
\* (variant: the timestamp is not compared with Date.now())
parseAnyTimestamp(input, t) ==
    IF input.kind = "cron"
    THEN [ok |-> TRUE, cronExpression |-> input.period, specificTime |-> Null,
          nextRun |-> CronNext(input.period, t)]
    ELSE IF input.kind = "invalid"
    THEN [ok |-> FALSE, cronExpression |-> Null, specificTime |-> Null,
          nextRun |-> Null]
    ELSE IF input.kind = "nan"
    THEN [ok |-> TRUE, cronExpression |-> Null, specificTime |-> NaN,
          nextRun |-> NaN]
    ELSE [ok |-> TRUE, cronExpression |-> Null, specificTime |-> input.t,
          nextRun |-> input.t]

parseScheduleInput(input, t) ==
    IF input.kind = "cron"
    THEN [ok |-> TRUE, cronExpression |-> input.period, specificTime |-> Null,
          nextRun |-> CronNext(input.period, t)]
    ELSE IF input.kind = "invalid"
    THEN [ok |-> FALSE, cronExpression |-> Null, specificTime |-> Null,
          nextRun |-> Null]
    ELSE IF input.kind = "nan"
    THEN [ok |-> TRUE, cronExpression |-> Null, specificTime |-> NaN,
          nextRun |-> NaN]
    ELSE IF input.t <= t
    THEN [ok |-> FALSE, cronExpression |-> Null, specificTime |-> Null,
          nextRun |-> Null]
    ELSE [ok |-> TRUE, cronExpression |-> Null, specificTime |-> input.t,
          nextRun |-> input.t]

\* ------------------------------------------------------------- facade
\* The public methods are async functions.  A call runs synchronously up
\* to its first await and is then suspended; its continuation is a
\* microtask.  Calls made without awaiting one another therefore overlap:
\* between two segments of one call, segments of other calls run.  Each
\* await on a promise that is already settled takes one microtask turn,
\* so suspended calls resume in the order in which they were suspended.
\* A call suspended in init() at await import('node:sqlite') resumes
\* later than that; it is marked `importing`.  When the import has
\* resolved and init() has run, init() returns to ensureDatabase() in one
\* more turn (the call is marked `returning`), and ensureDatabase() to
\* the method in another.

NoInput == [kind |-> "none", period |-> 0, t |-> Null]

\* A call suspended at `await this.ensureDatabase()`:
\* if (!this.isInitialized) await this.init()
PendingCall(op, id, input, completedOlderThanDays, cancelledOlderThanDays) ==
    [op |-> op, id |-> id, input |-> input,
     completedOlderThanDays |-> completedOlderThanDays,
     cancelledOlderThanDays |-> cancelledOlderThanDays,
     handler |-> NoHandler,
     pc |-> "ensure", importing |-> ~isInitialized, returning |-> FALSE]

\* The suspended call whose continuation is next in the microtask queue.
Resumable(q) == {k \in 1..Len(q) : ~q[k].importing}

NextResumed(q) == CHOOSE k \in Resumable(q) : \A j \in Resumable(q) : k <= j

Resumes(r) == Resumable(pend) # {} /\ pend[NextResumed(pend)] = r

\* The record of that call, if there is one.
Resumed == IF Resumable(pend) = {} THEN {} ELSE {pend[NextResumed(pend)]}

\* The resumed call returns or throws.
Settled == RemoveAt(pend, NextResumed(pend))

\* The resumed call reaches its next await.
Awaits(r) == Append(Settled, r)

\* A public method is called and suspends at its first await.
Called(r) ==
    /\ Len(pend) < MaxPending
    /\ pend' = Append(pend, r)
    /\ lastEvent' = Quiet
    /\ UNCHANGED <<now, cron_jobs, handlers, activeJobs, orphans, execs,
                   isRunning, isInitialized, db, refreshTimer,
                   autoCleanupTimer, loops, leaked, nextId>>

\* The store as ensureDatabase leaves it when nothing else runs between
\* its await and the caller's next statement.
EnsuredDb == IF isInitialized THEN db ELSE "open"

SetTimers(ts) ==
    /\ activeJobs' = ts.aj
    /\ orphans' = ts.orph

\* VALUES (id, cron, time, identifier, 'active', nextRun, null, 0, now,
\* now)
NewRow(identifier, p, t) ==
    [id |-> nextId + 1, cron_expression |-> p.cronExpression,
     specific_time |-> p.specificTime, identifier |-> identifier,
     status |-> "active", next_run |-> p.nextRun, last_run |-> Null,
     run_count |-> 0, updated_at |-> t]

\* (variant: a plain INSERT into a table without the UNIQUE constraint)
InsertKeepingOld(table, row) == table \cup {row}

\* INSERT OR REPLACE INTO cron_jobs: the rows that conflict with the new
\* one on id (PRIMARY KEY) or identifier (UNIQUE) are deleted, then the
\* row is inserted.
InsertOrReplace(table, row) ==
    {r \in table : r.id # row.id /\ r.identifier # row.identifier}
        \cup {row}

\* this.handlers.set(identifier, handler)
handlersSet(hs, identifier, handler) == [hs EXCEPT ![identifier] = handler]

\* this.handlers.delete(identifier)
handlersDelete(hs, identifier) == [hs EXCEPT ![identifier] = NoHandler]

\* The interval fields and the live loops behind them.
Loops(rt, ct, lp) == [rt |-> rt, ct |-> ct, lp |-> lp]

SetLoops(L) ==
    /\ refreshTimer' = L.rt
    /\ autoCleanupTimer' = L.ct
    /\ loops' = L.lp

\* (variant: the refresh interval created without looking at the field)
RefreshLoopAlways(rt) == TRUE

\* if (!this.refreshTimer) this.refreshTimer = setInterval(...)
RefreshLoopNeeded(rt) == ~rt

\* startAutoCleanup: if (!this.autoCleanupEnabled || this.autoCleanupTimer)
\* return
CleanupLoopNeeded(ct) == autoCleanupEnabled /\ ~ct

\* The tail of start(): the refresh interval, then startAutoCleanup().
StartLoops(L) ==
    LET r == RefreshLoopNeeded(L.rt)
        c == CleanupLoopNeeded(L.ct)
    IN  Loops(L.rt \/ r, L.ct \/ c,
              [refresh |-> L.lp.refresh + (IF r THEN 1 ELSE 0),
               cleanup |-> L.lp.cleanup + (IF c THEN 1 ELSE 0)])

\* clearInterval on the handles the two fields hold.
StopLoops(L) ==
    Loops(FALSE, FALSE,
          [refresh |-> L.lp.refresh - (IF L.rt THEN 1 ELSE 0),
           cleanup |-> L.lp.cleanup - (IF L.ct THEN 1 ELSE 0)])

\* stopAutoCleanup(): clearInterval on the cleanup handle only.
stopAutoCleanup(L) ==
    Loops(L.rt, FALSE,
          [refresh |-> L.lp.refresh,
           cleanup |-> L.lp.cleanup - (IF L.ct THEN 1 ELSE 0)])

\* init() called by the application.
InitCalled ==
    IF isInitialized
    THEN /\ lastEvent' = Event("init", "", "noop")
         /\ UNCHANGED <<now, cron_jobs, handlers, activeJobs, orphans, execs,
                        isRunning, isInitialized, db, refreshTimer,
                        autoCleanupTimer, loops, pend, leaked, nextId>>
    ELSE Called(PendingCall("init", "", NoInput, 0, 0))

\* The import in init() has resolved: this.db = new DatabaseSync(file,
\* { open: true }); this.initializeDatabase(); this.isInitialized = true.
\* isInitialized is not tested again, so every call that was suspended
\* here opens a store handle of its own; the handle this.db referred to,
\* if it is open, stays open with nothing referring to it.  init() then
\* returns: to the application, or to the ensureDatabase() that awaited
\* it.
InitOpens ==
    /\ \E k \in 1..Len(pend) :
          /\ pend[k].importing
          /\ \A j \in 1..(k - 1) : ~pend[j].importing
          /\ pend' = IF pend[k].op = "init"
                     THEN RemoveAt(pend, k)
                     ELSE Append(RemoveAt(pend, k),
                                 [pend[k] EXCEPT !.importing = FALSE,
                                                 !.returning = TRUE])
    /\ leaked' = leaked + (IF db = "open" THEN 1 ELSE 0)
    /\ db' = "open"
    /\ isInitialized' = TRUE
    /\ lastEvent' = Event("init", "", "opened")
    /\ UNCHANGED <<now, cron_jobs, handlers, activeJobs, orphans, execs,
                   isRunning, refreshTimer, autoCleanupTimer, loops, nextId>>

\* ensureDatabase() resumes after `await this.init()` and returns to the
\* method that awaited it, whose continuation joins the queue behind the
\* calls made meanwhile.
InitReturns ==
    /\ Resumable(pend) # {}
    /\ pend[NextResumed(pend)].returning
    /\ pend' = Awaits([pend[NextResumed(pend)] EXCEPT !.returning = FALSE])
    /\ lastEvent' = Quiet
    /\ UNCHANGED <<now, cron_jobs, handlers, activeJobs, orphans, execs,
                   isRunning, isInitialized, db, refreshTimer,
                   autoCleanupTimer, loops, leaked, nextId>>

\* A getter (get, getJobStatus, getJobRunCount, getActiveJobsCount, ...)
\* is called.
GetCalled == Called(PendingCall("get", "", NoInput, 0, 0))

\* The getter's SELECT: it reads, and throws on a handle that is closed
\* or gone.
Get ==
    /\ Resumes([PendingCall("get", "", NoInput, 0, 0)
                   EXCEPT !.importing = FALSE])
    /\ pend' = Settled
    /\ lastEvent' = Event("get", "", IF db = "open" THEN "ok" ELSE "dbclosed")
    /\ UNCHANGED <<now, cron_jobs, handlers, activeJobs, orphans, execs,
                   isRunning, isInitialized, db, refreshTimer,
                   autoCleanupTimer, loops, leaked, nextId>>

ScheduleCalled(id, input, handler) ==
    /\ Len(orphans[id]) < MaxOrphans
    /\ Called([PendingCall("schedule", id, input, 0, 0)
                  EXCEPT !.handler = handler])

\* schedule() from parseScheduleInput to its return or, on an engine
\* that is not running, to the await in the start() it calls.
Schedule(id, input, handler) ==
    LET r == [PendingCall("schedule", id, input, 0, 0)
                 EXCEPT !.handler = handler, !.importing = FALSE]
        p == parseScheduleInput(input, now)
        ts0 == Timers(activeJobs, orphans)
        ts1 == IF p.nextRun <= now + lookAheadWindow
               THEN scheduleJobExecution(ts0, id, p.nextRun, now) ELSE ts0
        st1 == InsertOrReplace(cron_jobs, NewRow(id, p, now))
        hs1 == handlersSet(handlers, id, handler)
    IN
    /\ Resumes(r)
    /\ UNCHANGED <<now, execs, isRunning, isInitialized, db, refreshTimer,
                   autoCleanupTimer, loops, leaked>>
    /\ IF ~p.ok
       THEN /\ lastEvent' = Event("schedule", id, "invalid")
            /\ pend' = Settled
            /\ UNCHANGED <<cron_jobs, handlers, activeJobs, orphans, nextId>>
       ELSE IF db # "open"
       THEN /\ handlers' = hs1
            /\ lastEvent' = Event("schedule", id, "dbclosed")
            /\ pend' = Settled
            /\ UNCHANGED <<cron_jobs, activeJobs, orphans, nextId>>
       ELSE IF p.nextRun = NaN
       THEN /\ handlers' = hs1
            /\ lastEvent' = Event("schedule", id, "notnull")
            /\ pend' = Settled
            /\ UNCHANGED <<cron_jobs, activeJobs, orphans, nextId>>
       ELSE /\ handlers' = hs1
            /\ cron_jobs' = st1
            /\ nextId' = nextId + 1
            /\ SetTimers(ts1)
            /\ IF isRunning
               THEN /\ lastEvent' = Event("schedule", id, "ok")
                    /\ pend' = Settled
               ELSE /\ lastEvent' = Event("schedule", id, "stored")
                    /\ pend' = Awaits([r EXCEPT
                                            !.pc = "start",
                                            !.importing = ~isInitialized])

\* UPDATE cron_jobs SET status = ?, updated_at = ? WHERE identifier = ?
UpdateStatus(table, id, status, t) ==
    {IF r.identifier = id
     THEN [r EXCEPT !.status = status, !.updated_at = t] ELSE r :
        r \in table}

CancelCalled(id) == Called(PendingCall("cancel", id, NoInput, 0, 0))

Cancel(id) ==
    /\ Resumes([PendingCall("cancel", id, NoInput, 0, 0)
                   EXCEPT !.importing = FALSE])
    /\ pend' = Settled
    /\ UNCHANGED <<now, execs, isRunning, isInitialized, db, refreshTimer,
                   autoCleanupTimer, loops, leaked, nextId>>
    /\ IF db # "open"
       THEN /\ lastEvent' = Event("cancel", id, "dbclosed")
            /\ UNCHANGED <<cron_jobs, handlers, activeJobs, orphans>>
       ELSE /\ cron_jobs' = UpdateStatus(cron_jobs, id, "cancelled", now)
            /\ SetTimers(clearJobExecution(Timers(activeJobs, orphans), id))
            /\ handlers' = handlersDelete(handlers, id)
            /\ lastEvent' = StatusEvent("cancel", id, store)

PauseCalled(id) == Called(PendingCall("pause", id, NoInput, 0, 0))

Pause(id) ==
    /\ Resumes([PendingCall("pause", id, NoInput, 0, 0)
                   EXCEPT !.importing = FALSE])
    /\ pend' = Settled
    /\ UNCHANGED <<now, execs, handlers, isRunning, isInitialized, db,
                   refreshTimer, autoCleanupTimer, loops, leaked, nextId>>
    /\ IF db # "open"
       THEN /\ lastEvent' = Event("pause", id, "dbclosed")
            /\ UNCHANGED <<cron_jobs, activeJobs, orphans>>
       ELSE /\ cron_jobs' = UpdateStatus(cron_jobs, id, "paused", now)
            /\ SetTimers(clearJobExecution(Timers(activeJobs, orphans), id))
            /\ lastEvent' = StatusEvent("pause", id, store)

ResumeCalled(id) == Called(PendingCall("resume", id, NoInput, 0, 0))

\* resume(): the chunk load it awaits has no await of its own, so it has
\* run when resume() suspends; nothing is left to do afterwards.
Resume(id) ==
    /\ Resumes([PendingCall("resume", id, NoInput, 0, 0)
                   EXCEPT !.importing = FALSE])
    /\ pend' = Settled
    /\ UNCHANGED <<now, execs, handlers, isRunning, isInitialized, db,
                   refreshTimer, autoCleanupTimer, loops, leaked, nextId>>
    /\ IF db # "open"
       THEN /\ lastEvent' = Event("resume", id, "dbclosed")
            /\ UNCHANGED <<cron_jobs, activeJobs, orphans>>
       ELSE /\ cron_jobs' = UpdateStatus(cron_jobs, id, "active", now)
            /\ lastEvent' = StatusEvent("resume", id, store)
            /\ IF store[id] # NoJob
               THEN SetTimers(loadAndScheduleChunk(
                        Timers(activeJobs, orphans),
                        Read(UpdateStatus(cron_jobs, id, "active", now)),
                        handlers, now))
               ELSE UNCHANGED <<activeJobs, orphans>>

\* start() called by the application: if (this.isRunning) return;
\* await this.ensureDatabase()
StartCalled ==
    IF isRunning
    THEN /\ lastEvent' = Event("start", "", "noop")
         /\ UNCHANGED <<now, cron_jobs, handlers, activeJobs, orphans, execs,
                        isRunning, isInitialized, db, refreshTimer,
                        autoCleanupTimer, loops, pend, leaked, nextId>>
    ELSE Called([PendingCall("start", "", NoInput, 0, 0) EXCEPT !.pc = "start"])

\* start() resumed after ensureDatabase, called by the application or by
\* schedule(): this.isRunning = true; await this.loadAndScheduleChunk().
\* The chunk load runs in this segment; when its SELECT throws, start()
\* (and the schedule() awaiting it) rejects with isRunning left true.
Start ==
    \E r \in {pend[k] : k \in 1..Len(pend)} :
        /\ Resumes(r)
        /\ r.pc = "start"
        /\ isRunning' = TRUE
        /\ UNCHANGED <<now, cron_jobs, handlers, execs, isInitialized, db,
                       refreshTimer, autoCleanupTimer, loops, leaked, nextId>>
        /\ IF db # "open"
           THEN /\ SetTimers(clearAllTimers(Timers(activeJobs, orphans)))
                /\ lastEvent' = Event(r.op, r.id, "dbclosed")
                /\ pend' = Settled
           ELSE /\ SetTimers(loadAndScheduleChunk(
                        Timers(activeJobs, orphans), store, handlers, now))
                /\ lastEvent' = Event(r.op, r.id, "loaded")
                /\ pend' = Awaits([r EXCEPT !.pc = "loops"])

\* The tail of start(), after the await on the chunk load: the refresh
\* interval and startAutoCleanup().  It tests neither isRunning nor the
\* store.
StartTail ==
    \E r \in {pend[k] : k \in 1..Len(pend)} :
        /\ Resumes(r)
        /\ r.pc = "loops"
        /\ SetLoops(StartLoops(Loops(refreshTimer, autoCleanupTimer, loops)))
        /\ lastEvent' = Event(r.op, r.id,
                              IF r.op = "schedule" THEN "started" ELSE "ok")
        /\ pend' = Settled
        /\ UNCHANGED <<now, cron_jobs, handlers, activeJobs, orphans, execs,
                       isRunning, isInitialized, db, leaked,
                       nextId>>

\* stop() closes the store handle when it is open.
DbAfterStop == IF db = "open" THEN "closed" ELSE db

\* stop() has no await: it runs to its end in the caller's turn.
Stop ==
    /\ isRunning' = FALSE
    /\ SetLoops(StopLoops(Loops(refreshTimer, autoCleanupTimer, loops)))
    /\ SetTimers(clearAllTimers(Timers(activeJobs, orphans)))
    /\ db' = DbAfterStop
    /\ lastEvent' = Event("stop", "", "ok")
    /\ UNCHANGED <<now, cron_jobs, handlers, execs, isInitialized, pend, leaked,
                   nextId>>

\* destroy() called: the stop() it awaits runs at once.
DestroyCalled ==
    /\ Len(pend) < MaxPending
    /\ isRunning' = FALSE
    /\ SetLoops(StopLoops(Loops(refreshTimer, autoCleanupTimer, loops)))
    /\ SetTimers(clearAllTimers(Timers(activeJobs, orphans)))
    /\ db' = DbAfterStop
    /\ pend' = Append(pend, [PendingCall("destroy", "", NoInput, 0, 0)
                                EXCEPT !.pc = "close", !.importing = FALSE])
    /\ lastEvent' = Event("destroy", "", "stopped")
    /\ UNCHANGED <<now, cron_jobs, handlers, execs, isInitialized, leaked,
                   nextId>>

\* this.activeJobs.clear() without clearTimeout
RECURSIVE activeJobsClear(_, _)
activeJobsClear(ts, ids) ==
    IF ids = {} THEN ts
    ELSE LET i == CHOOSE x \in ids : TRUE
         IN  activeJobsClear(activeJobsDelete(ts, i), ids \ {i})

\* destroy() after the await on stop(): stopAutoCleanup(); if (this.db)
\* { this.db.close(); this.db = undefined }; the two clear() calls;
\* isInitialized = false.  close() on the handle stop() has closed throws
\* ("database is not open") and the rest is skipped.
Destroy ==
    /\ Resumes([PendingCall("destroy", "", NoInput, 0, 0)
                   EXCEPT !.pc = "close", !.importing = FALSE])
    /\ pend' = Settled
    /\ SetLoops(stopAutoCleanup(Loops(refreshTimer, autoCleanupTimer, loops)))
    /\ UNCHANGED <<now, cron_jobs, execs, isRunning, leaked, nextId>>
    /\ IF db = "closed"
       THEN /\ lastEvent' = Event("destroy", "", "throw")
            /\ UNCHANGED <<handlers, activeJobs, orphans, isInitialized, db>>
       ELSE /\ db' = "none"
            /\ handlers' = NoHandlers
            /\ SetTimers(activeJobsClear(Timers(activeJobs, orphans), Ids))
            /\ isInitialized' = FALSE
            /\ lastEvent' = Event("destroy", "", "ok")

\* new SqliteDriver(config) on the same database file, made by the caller
\* once destroy() on the previous engine has returned or thrown and the
\* previous engine has nothing in flight and no interval left.  The rows
\* stay; the registry, the timer map and the flags are those of a fresh
\* object.
NewEngine ==
    /\ lastEvent.op = "destroy"
    /\ lastEvent.res \in {"ok", "throw"}
    /\ \A i \in Ids : execs[i] = <<>> /\ orphans[i] = <<>>
    /\ loops = [refresh |-> 0, cleanup |-> 0]
    /\ handlers' = NoHandlers
    /\ activeJobs' = [i \in Ids |-> NoTimer]
    /\ isRunning' = FALSE
    /\ isInitialized' = FALSE
    /\ db' = "none"
    /\ SetLoops(Loops(FALSE, FALSE, [refresh |-> 0, cleanup |-> 0]))
    /\ lastEvent' = Event("newengine", "", "ok")
    /\ UNCHANGED <<now, cron_jobs, orphans, execs, leaked, nextId>>

\* The refresh interval's callback.  Its period (refreshInterval) is left
\* open: a tick may come at any instant while the interval is set.
RefreshTick ==
    /\ loops.refresh > 0
    /\ db = "open"
    /\ SetTimers(loadAndScheduleChunk(Timers(activeJobs, orphans), store,
                                      handlers, now))
    /\ lastEvent' = Event("refresh", "", "ok")
    /\ UNCHANGED <<now, cron_jobs, handlers, execs, isRunning, isInitialized, db,
                   refreshTimer, autoCleanupTimer, loops, nextId, leaked>>

\* DELETE FROM cron_jobs WHERE status = ? AND updated_at < cutoff
DeleteOld(table, status, cutoff) ==
    {r \in table : ~(r.status = status /\ r.updated_at < cutoff)}

cleanupAllOldJobs(table, completedOlderThanDays, cancelledOlderThanDays, t) ==
    DeleteOld(DeleteOld(table, "completed",
                        t - completedOlderThanDays * DayLength),
              "cancelled", t - cancelledOlderThanDays * DayLength)

\* Number(result.changes) of one DELETE
Changes(table, status, cutoff) ==
    Cardinality({r \in table : r.status = status /\ r.updated_at < cutoff})

\* The { completed, cancelled } object returned by cleanupAllOldJobs.
CleanupEvent(op, table, completedOlderThanDays, cancelledOlderThanDays, t) ==
    [Event(op, "", "ok") EXCEPT
        !.completed = Changes(table, "completed",
                              t - completedOlderThanDays * DayLength),
        !.cancelled = Changes(table, "cancelled",
                              t - cancelledOlderThanDays * DayLength)]

\* The auto-cleanup interval's callback (performAutoCleanup).  No call
\* is suspended when an interval callback starts, so nothing runs between
\* its ensureDatabase and its DELETEs.  Both DELETEs run on every tick,
\* whether or not a row is past its retention.
CleanupTick ==
    /\ loops.cleanup > 0
    /\ EnsuredDb = "open"
    /\ isInitialized' = TRUE
    /\ db' = EnsuredDb
    /\ cron_jobs' = cleanupAllOldJobs(cron_jobs, completedJobsRetentionDays,
                                      cancelledJobsRetentionDays, now)
    /\ lastEvent' = CleanupEvent("cleanup", cron_jobs,
                                 completedJobsRetentionDays,
                                 cancelledJobsRetentionDays, now)
    /\ UNCHANGED <<now, handlers, activeJobs, orphans, execs, isRunning,
                   refreshTimer, autoCleanupTimer, loops, nextId, leaked>>

\* The olderThanDays arguments of a manual cleanup call.
CleanupDays == {0, 1}

CleanupAllOldJobsCalled(completedOlderThanDays, cancelledOlderThanDays) ==
    Called(PendingCall("cleanupAllOldJobs", "", NoInput,
                       completedOlderThanDays, cancelledOlderThanDays))

\* cleanupAllOldJobs(completedOlderThanDays, cancelledOlderThanDays) called
\* by the application: it throws when the store handle is closed.
CleanupAllOldJobs(completedOlderThanDays, cancelledOlderThanDays) ==
    /\ Resumes([PendingCall("cleanupAllOldJobs", "", NoInput,
                            completedOlderThanDays, cancelledOlderThanDays)
                   EXCEPT !.importing = FALSE])
    /\ pend' = Settled
    /\ UNCHANGED <<now, handlers, activeJobs, orphans, execs, isRunning,
                   isInitialized, db, refreshTimer, autoCleanupTimer, loops,
                   leaked, nextId>>
    /\ IF db # "open"
       THEN /\ lastEvent' = Event("cleanupAllOldJobs", "", "dbclosed")
            /\ UNCHANGED cron_jobs
       ELSE /\ cron_jobs' = cleanupAllOldJobs(cron_jobs,
                                              completedOlderThanDays,
                                              cancelledOlderThanDays, now)
            /\ lastEvent' = CleanupEvent("cleanupAllOldJobs", cron_jobs,
                                         completedOlderThanDays,
                                         cancelledOlderThanDays, now)

CleanupOldJobsCalled(olderThanDays) ==
    Called(PendingCall("cleanupOldJobs", "", NoInput, 0, olderThanDays))

\* cleanupOldJobs(olderThanDays): one DELETE, of the cancelled rows older
\* than the cutoff; it returns the number of rows deleted and throws when
\* the store handle is closed.
CleanupOldJobs(olderThanDays) ==
    /\ Resumes([PendingCall("cleanupOldJobs", "", NoInput, 0, olderThanDays)
                   EXCEPT !.importing = FALSE])
    /\ pend' = Settled
    /\ UNCHANGED <<now, handlers, activeJobs, orphans, execs, isRunning,
                   isInitialized, db, refreshTimer, autoCleanupTimer, loops,
                   leaked, nextId>>
    /\ IF db # "open"
       THEN /\ lastEvent' = Event("cleanupOldJobs", "", "dbclosed")
            /\ UNCHANGED cron_jobs
       ELSE /\ cron_jobs' = DeleteOld(cron_jobs, "cancelled",
                                      now - olderThanDays * DayLength)
            /\ lastEvent' =
                  [Event("cleanupOldJobs", "", "ok") EXCEPT
                      !.cancelled = Changes(cron_jobs, "cancelled",
                                            now - olderThanDays * DayLength)]

CleanupCompletedJobsCalled(olderThanDays) ==
    Called(PendingCall("cleanupCompletedJobs", "", NoInput, olderThanDays, 0))

\* cleanupCompletedJobs(olderThanDays): one DELETE, of the completed rows
\* older than the cutoff; it returns the number of rows deleted and throws
\* when the store handle is closed.
CleanupCompletedJobs(olderThanDays) ==
    /\ Resumes([PendingCall("cleanupCompletedJobs", "", NoInput,
                            olderThanDays, 0)
                   EXCEPT !.importing = FALSE])
    /\ pend' = Settled
    /\ UNCHANGED <<now, handlers, activeJobs, orphans, execs, isRunning,
                   isInitialized, db, refreshTimer, autoCleanupTimer, loops,
                   leaked, nextId>>
    /\ IF db # "open"
       THEN /\ lastEvent' = Event("cleanupCompletedJobs", "", "dbclosed")
            /\ UNCHANGED cron_jobs
       ELSE /\ cron_jobs' = DeleteOld(cron_jobs, "completed",
                                      now - olderThanDays * DayLength)
            /\ lastEvent' =
                  [Event("cleanupCompletedJobs", "", "ok") EXCEPT
                      !.completed = Changes(cron_jobs, "completed",
                                            now - olderThanDays * DayLength)]

TriggerAutoCleanupCalled ==
    Called(PendingCall("triggerAutoCleanup", "", NoInput,
                       completedJobsRetentionDays, cancelledJobsRetentionDays))

\* triggerAutoCleanup(): performAutoCleanup with the configured retention;
\* an error of the store is swallowed and { 0, 0 } returned.
TriggerAutoCleanup ==
    /\ Resumes([PendingCall("triggerAutoCleanup", "", NoInput,
                            completedJobsRetentionDays,
                            cancelledJobsRetentionDays)
                   EXCEPT !.importing = FALSE])
    /\ pend' = Settled
    /\ UNCHANGED <<now, handlers, activeJobs, orphans, execs, isRunning,
                   isInitialized, db, refreshTimer, autoCleanupTimer, loops,
                   leaked, nextId>>
    /\ IF db # "open"
       THEN /\ lastEvent' = Event("triggerAutoCleanup", "", "dbclosed")
            /\ UNCHANGED cron_jobs
       ELSE /\ cron_jobs' = cleanupAllOldJobs(cron_jobs,
                                              completedJobsRetentionDays,
                                              cancelledJobsRetentionDays, now)
            /\ lastEvent' = CleanupEvent("triggerAutoCleanup", cron_jobs,
                                         completedJobsRetentionDays,
                                         cancelledJobsRetentionDays, now)


\* ----------------------------------------------------------- executor
\* (variant: the delay is not capped by retry.maxDelay)
RetryDelayUncapped(attempt) == retryBaseDelay * Pow2(attempt - 1)

\* Math.min(retryBaseDelay * Math.pow(2, attempt - 1), retryMaxDelay)
RetryDelay(attempt) ==
    Min(retryBaseDelay * Pow2(attempt - 1), retryMaxDelay)

\* (variant: the status condition dropped from the WHERE clause)
GateAnyStatus(row) == row # NoJob

\* WHERE identifier = ? AND status = 'active'
GatePasses(row) == row.status = "active"

\* (variant: one increment per handler attempt)
RunCountPerAttempt(row, e) == row.run_count + e.attempt

\* job.run_count + 1
RunCountAfter(row, e) == row.run_count + 1

\* (variant: the UPDATE also clears specific_time of a completed job)
UpdatedRowClearsTime(row, e, t) ==
    IF row.cron_expression # Null
    THEN [row EXCEPT !.last_run = t,
                     !.next_run = CronNext(row.cron_expression, t),
                     !.run_count = row.run_count + 1,
                     !.status = "active", !.updated_at = t]
    ELSE [row EXCEPT !.last_run = t, !.next_run = row.specific_time,
                     !.run_count = row.run_count + 1,
                     !.specific_time = Null,
                     !.status = "completed", !.updated_at = t]

\* UPDATE cron_jobs SET last_run = ?, next_run = ?, run_count = ?,
\* status = ?, updated_at = ? WHERE identifier = ?
UpdateJob(table, identifier, row) ==
    {IF r.identifier = identifier THEN row ELSE r : r \in table}

\* The row written by the post-execution UPDATE.
UpdatedRow(row, e, t) ==
    IF row.cron_expression # Null
    THEN [row EXCEPT !.last_run = t,
                     !.next_run = CronNext(row.cron_expression, t),
                     !.run_count = RunCountAfter(row, e),
                     !.status = "active", !.updated_at = t]
    ELSE [row EXCEPT !.last_run = t, !.next_run = row.specific_time,
                     !.run_count = RunCountAfter(row, e),
                     !.status = "completed", !.updated_at = t]

\* (variant: a recurring job is re-armed whatever its next_run)
RearmIgnoringWindow(ts, id, row, t) ==
    IF row.cron_expression # Null
    THEN scheduleJobExecution(ts, id, row.next_run, t)
    ELSE activeJobsDelete(ts, id)

\* Re-arm after the update, or drop the map entry.
Rearm(ts, id, row, t) ==
    IF row.cron_expression # Null /\ row.next_run <= t + lookAheadWindow
    THEN scheduleJobExecution(ts, id, row.next_run, t)
    ELSE activeJobsDelete(ts, id)

\* if (lastError) { if (this.onErrorHandler) this.onErrorHandler(identifier,
\* lastError); else process.stdout.write(...) }
ErrorCallbacks(e, failed) ==
    IF failed /\ onErrorHandler # "none" THEN 1 ELSE 0

\* (variant: one attempt more than configured)
IsLastAttemptOffByOne(attempt) == attempt = maxRetryAttempts + 1

\* if (attempt === this.maxRetryAttempts) break
IsLastAttempt(attempt) == attempt = maxRetryAttempts

\* try { await handler() } catch (error) { lastError = ... }
HandlerErrorCaught == TRUE

\* An error leaves an async timer or interval callback: the rejection is
\* unhandled and Node ends the process.  The calls and executions in
\* flight die with it.
ProcessExit(id) ==
    /\ isRunning' = FALSE
    /\ SetLoops(Loops(FALSE, FALSE, [refresh |-> 0, cleanup |-> 0]))
    /\ handlers' = NoHandlers
    /\ activeJobs' = [i \in Ids |-> NoTimer]
    /\ orphans' = [i \in Ids |-> <<>>]
    /\ execs' = [i \in Ids |-> <<>>]
    /\ pend' = <<>>
    /\ db' = "none"
    /\ leaked' = 0
    /\ isInitialized' = FALSE
    /\ lastEvent' = Event("exit", id, "")
    /\ UNCHANGED <<now, cron_jobs, nextId>>

\* executeJob rejects.  Its caller is the timeout callback
\* `async () => { await this.executeJob(identifier) }`, which has no
\* catch: the rejection is unhandled and Node ends the process, unless
\* the application has installed an 'unhandledRejection' listener; then
\* the engine goes on with the timers ts and the pipelines ex, and
\* nothing after the throw has run.
ExecuteJobRejects(id, ev, ts, ex) ==
    \/ ProcessExit(id)
    \/ /\ execs' = ex
       /\ SetTimers(ts)
       /\ lastEvent' = ev
       /\ UNCHANGED <<now, cron_jobs, handlers, isRunning, isInitialized, db,
                      refreshTimer, autoCleanupTimer, loops, pend, nextId,
                      leaked>>

\* executeJob from the end of the retry loop to its return or throw, for
\* the pipeline e of id, with the timers ts and the other pipelines ex:
\* the error callback, the SELECT of the active row, the UPDATE, and the
\* re-arming of the timer or the removal of the map entry.
PostExecution(id, e, failed, ts, ex) ==
    LET ev == [Event("finish", id, "") EXCEPT !.attempts = e.attempt,
                                              !.failed = failed,
                                              !.onError = ErrorCallbacks(e, failed)]
        row == UpdatedRow(store[id], e, now)
    IN
    IF failed /\ onErrorHandler = "throws"
    THEN ExecuteJobRejects(id, [ev EXCEPT !.res = "onerrorthrew"], ts, ex)
    ELSE IF db # "open"
    THEN ExecuteJobRejects(id, [ev EXCEPT !.res = "dbclosed"], ts, ex)
    ELSE /\ execs' = ex
         /\ UNCHANGED <<now, handlers, isRunning, isInitialized, db,
                        refreshTimer, autoCleanupTimer, loops, pend, nextId,
                        leaked>>
         /\ IF ~GatePasses(store[id])
            THEN /\ lastEvent' = [ev EXCEPT !.res = "gated"]
                 /\ SetTimers(ts)
                 /\ UNCHANGED cron_jobs
            ELSE /\ cron_jobs' = UpdateJob(cron_jobs, id, row)
                 /\ SetTimers(Rearm(ts, id, row, now))
                 /\ lastEvent' = [ev EXCEPT !.res = "applied"]

\* An executeJob pipeline: the attempt number, where it is suspended, when
\* its sleep ends, and (for the record) the row id the identifier had when
\* the timer fired.
NewExec == [attempt |-> 1, phase |-> "handler", wakeAt |-> Null,
            firedFor |-> 0]

\* (variant: the handler lookup is not tested)
HandlerLookupSkipped(id) == TRUE

\* const handler = this.handlers.get(identifier); if (!handler) return
HandlerFound(id) == handlers[id] # NoHandler

\* The retry loop is entered: for (let attempt = 1; attempt <=
\* this.maxRetryAttempts; attempt++)
LoopEntered == 1 <= maxRetryAttempts

\* executeJob entered for id with the timers ts, up to its first await:
\* the handler lookup, then the first attempt or, when the loop admits no
\* attempt, the rest of executeJob with no handler call made.
BeginExecute(id, ts) ==
    IF ~HandlerFound(id)
    THEN /\ SetTimers(ts)
         /\ lastEvent' = Event("fire", id, "nohandler")
         /\ UNCHANGED <<now, cron_jobs, handlers, execs, isRunning,
                        isInitialized, db, refreshTimer, autoCleanupTimer,
                        loops, pend, nextId, leaked>>
    ELSE IF ~LoopEntered
    THEN PostExecution(id, [NewExec EXCEPT !.attempt = 0,
                                          !.firedFor = store[id].id],
                       FALSE, ts, execs)
    ELSE /\ Len(execs[id]) < MaxExecs
         /\ execs' = [execs EXCEPT ![id] =
                          Append(@, [NewExec EXCEPT !.firedFor = store[id].id])]
         /\ SetTimers(ts)
         /\ lastEvent' = Event("fire", id, "started")
         /\ UNCHANGED <<now, cron_jobs, handlers, isRunning, isInitialized, db,
                        refreshTimer, autoCleanupTimer, loops, pend, nextId,
                        leaked>>

\* (variant: a pipeline suspended in executeJob holds the event loop)
AwaitBlocks == \A i \in Ids : execs[i] = <<>>

\* await handler() and await new Promise(setTimeout) suspend executeJob
\* and give the event loop back: other callbacks run meanwhile.
AwaitYields == TRUE

\* The callback of a timeout armed for deadline can run at this instant.
Elapsed(deadline) == deadline <= now + TimerSlack

\* The callback of a timeout armed for deadline runs: early, when
\* Date.now() has not reached the deadline.
Expires(deadline) ==
    /\ Elapsed(deadline)
    /\ IF now < deadline
       THEN early < MaxEarly /\ early' = early + 1
       ELSE UNCHANGED early

\* The timeout held by activeJobs fires; its entry stays in the map.
TimerFire(id) ==
    /\ AwaitYields
    /\ activeJobs[id].pending
    /\ Expires(activeJobs[id].deadline)
    /\ BeginExecute(id, Timers([activeJobs EXCEPT ![id].pending = FALSE],
                               orphans))

\* A pending timeout that activeJobs no longer references fires.
OrphanFire(id) ==
    \E k \in 1..Len(orphans[id]) :
        /\ Expires(orphans[id][k])
        /\ BeginExecute(id, Timers(activeJobs,
                                   [orphans EXCEPT ![id] = RemoveAt(@, k)]))

\* await handler() resolves.
HandlerSucceeds(id) ==
    \E k \in 1..Len(execs[id]) :
        /\ execs[id][k].phase = "handler"
        /\ PostExecution(id, execs[id][k], FALSE, Timers(activeJobs, orphans),
                         [execs EXCEPT ![id] = RemoveAt(@, k)])

\* await handler() rejects: back off and retry, or give up after the last
\* permitted attempt.
HandlerFails(id) ==
    \E k \in 1..Len(execs[id]) :
        /\ execs[id][k].phase = "handler"
        /\ IF ~HandlerErrorCaught
           THEN ProcessExit(id)
           ELSE IF IsLastAttempt(execs[id][k].attempt)
           THEN PostExecution(id, execs[id][k], TRUE,
                              Timers(activeJobs, orphans),
                              [execs EXCEPT ![id] = RemoveAt(@, k)])
           ELSE /\ execs' = [execs EXCEPT ![id][k].phase = "sleep",
                                ![id][k].wakeAt =
                                    now + RetryDelay(execs[id][k].attempt)]
                /\ lastEvent' = Event("backoff", id, "")
                /\ UNCHANGED <<now, cron_jobs, handlers, activeJobs, orphans,
                               isRunning, isInitialized, db, refreshTimer,
                               autoCleanupTimer, loops, pend, nextId, leaked>>

\* The backoff sleep ends and the handler is invoked again.
Retry(id) ==
    \E k \in 1..Len(execs[id]) :
        /\ execs[id][k].phase = "sleep"
        /\ Expires(execs[id][k].wakeAt)
        /\ execs' = [execs EXCEPT ![id][k].phase = "handler",
                                  ![id][k].attempt = @ + 1,
                                  ![id][k].wakeAt = Null]
        /\ lastEvent' = Event("retry", id, "")
        /\ UNCHANGED <<now, cron_jobs, handlers, activeJobs, orphans, isRunning,
                       isInitialized, db, refreshTimer, autoCleanupTimer,
                       loops, pend, nextId, leaked>>

\* A refresh tick on an engine whose store handle is closed or gone:
\* loadAndScheduleChunk has cleared the timers when prepare throws, and
\* the interval's async callback has no catch.  The rejection is
\* unhandled: Node ends the process, unless the application has
\* installed an 'unhandledRejection' listener.
RefreshTickFails ==
    /\ loops.refresh > 0
    /\ db # "open"
    /\ \/ ProcessExit("")
       \/ /\ SetTimers(clearAllTimers(Timers(activeJobs, orphans)))
          /\ lastEvent' = Event("refresh", "", "unhandled")
          /\ UNCHANGED <<now, cron_jobs, handlers, execs, isRunning,
                         isInitialized, db, refreshTimer, autoCleanupTimer,
                         loops, nextId, leaked>>

\* A cleanup tick on an engine whose store handle is closed:
\* performAutoCleanup catches the error and returns { completed: 0,
\* cancelled: 0 }.
CleanupTickFails ==
    /\ loops.cleanup > 0
    /\ EnsuredDb # "open"
    /\ lastEvent' = Event("cleanup", "", "swallowed")
    /\ UNCHANGED <<now, cron_jobs, handlers, activeJobs, orphans, execs,
                   isRunning, isInitialized, db, refreshTimer,
                   autoCleanupTimer, loops, nextId, leaked>>

\* The clock advances.
TickUpTo(limit) ==
    /\ now < limit
    /\ now' = now + 1
    /\ lastEvent' = Quiet
    /\ UNCHANGED <<cron_jobs, handlers, activeJobs, orphans, execs, isRunning,
                   isInitialized, db, refreshTimer, autoCleanupTimer, loops, nextId, leaked>>

Tick == TickUpTo(MaxTime)

\* Handler functions are interchangeable; the first one passed is "h1".
FirstHandler == "h1"

HandlersInUse ==
    IF handlers = NoHandlers
       /\ \A k \in 1..Len(pend) : pend[k].op # "schedule"
    THEN {FirstHandler} ELSE Handlers

\* Identifiers are interchangeable; the first job scheduled is "a".  The
\* application makes MaxCalls calls: after them it names no identifier.
IdsInUse ==
    IF calls >= MaxCalls THEN {}
    ELSE IF nextId = 0 /\ handlers = NoHandlers
            /\ \A k \in 1..Len(pend) : pend[k].op # "schedule"
         THEN {"a"} ELSE Ids

\* The identifiers a status call is made for: those the application has
\* scheduled, and "a" as the one it has not.
IdsKnown ==
    IF calls >= MaxCalls THEN {}
    ELSE {"a"} \cup {i \in Ids :
                        \/ \E r \in cron_jobs : r.identifier = i
                        \/ handlers[i] # NoHandler
                        \/ \E k \in 1..Len(pend) :
                              pend[k].op = "schedule" /\ pend[k].id = i}

Config ==
    UNCHANGED <<maxRetryAttempts, onErrorHandler, retryBaseDelay,
                retryMaxDelay, autoCleanupEnabled>>

\* A call of the public interface by the application, up to its first
\* await.
Call(op) ==
    /\ calls < MaxCalls
    /\ op
    /\ calls' = calls + 1
    /\ UNCHANGED early
    /\ Config

\* A suspended call of the public interface is resumed.
Continue(op) ==
    /\ pend # <<>>
    /\ op
    /\ UNCHANGED <<calls, early>>
    /\ Config

\* A timer or interval callback run by the event loop.  Timers are
\* macrotasks: none runs while a continuation is in the microtask queue.
Callback(op) ==
    /\ pend = <<>>
    /\ op
    /\ UNCHANGED <<calls, pend, early>>
    /\ Config

\* The callback of a setTimeout run by the event loop.
Timeout(op) ==
    /\ pend = <<>>
    /\ op
    /\ UNCHANGED calls
    /\ Config

\* The promise of a handler call settles and executeJob resumes.  This
\* is a microtask, like the resumption of a suspended call: the two
\* interleave in any order.
Resolved(op) ==
    /\ op
    /\ UNCHANGED <<calls, early>>
    /\ Config

\* Date.now() moves on, whatever is suspended or queued.
Elapses(op) ==
    /\ op
    /\ UNCHANGED <<calls, pend, early>>
    /\ Config

\* The steps of the engine constructed as in Init.  With retry.maxAttempts
\* 1 no attempt is followed by a backoff sleep: Retry is a step of
\* StartedNext and BackoffNext.
Next ==
    \/ Call(InitCalled)
    \/ Continue(InitOpens)
    \/ Continue(InitReturns)
    \/ Call(GetCalled)
    \/ Continue(Get)
    \/ \E id \in IdsInUse, input \in ScheduleInputs :
          Call(ScheduleCalled(id, input, FirstHandler))
    \/ \E r \in Resumed : Continue(Schedule(r.id, r.input, r.handler))
    \/ \E id \in IdsKnown : Call(CancelCalled(id))
    \/ \E r \in Resumed : Continue(Cancel(r.id))
    \/ \E id \in IdsKnown : Call(PauseCalled(id))
    \/ \E r \in Resumed : Continue(Pause(r.id))
    \/ \E id \in IdsKnown : Call(ResumeCalled(id))
    \/ \E r \in Resumed : Continue(Resume(r.id))
    \/ Call(StartCalled)
    \/ Continue(Start)
    \/ Continue(StartTail)
    \/ Call(Stop)
    \/ Call(DestroyCalled)
    \/ Continue(Destroy)
    \/ Callback(NewEngine)
    \/ \E c \in CleanupDays, x \in CleanupDays :
          Call(CleanupAllOldJobsCalled(c, x))
    \/ \E r \in Resumed :
          Continue(CleanupAllOldJobs(r.completedOlderThanDays,
                                     r.cancelledOlderThanDays))
    \/ \E d \in CleanupDays : Call(CleanupOldJobsCalled(d))
    \/ \E r \in Resumed : Continue(CleanupOldJobs(r.cancelledOlderThanDays))
    \/ \E d \in CleanupDays : Call(CleanupCompletedJobsCalled(d))
    \/ \E r \in Resumed :
          Continue(CleanupCompletedJobs(r.completedOlderThanDays))
    \/ Call(TriggerAutoCleanupCalled)
    \/ Continue(TriggerAutoCleanup)
    \/ Callback(RefreshTick)
    \/ Callback(CleanupTick)
    \/ Callback(RefreshTickFails)
    \/ Callback(CleanupTickFails)
    \/ \E id \in Ids : Timeout(TimerFire(id))
    \/ \E id \in Ids : Timeout(OrphanFire(id))
    \/ \E id \in Ids : Resolved(HandlerSucceeds(id))
    \/ \E id \in Ids : Resolved(HandlerFails(id))
    \/ Elapses(Tick)

Spec == Init /\ [][Next]_vars

\* The engine once `await start()` on the fresh object has returned: the
\* store is open, the refresh interval and, when enabled, the cleanup
\* interval are set, and nothing is stored yet.  Every configuration.
StartedInit ==
    /\ now = 0
    /\ cron_jobs = {}
    /\ handlers = NoHandlers
    /\ activeJobs = [i \in Ids |-> NoTimer]
    /\ orphans = [i \in Ids |-> <<>>]
    /\ execs = [i \in Ids |-> <<>>]
    /\ isRunning = TRUE
    /\ isInitialized = TRUE
    /\ db = "open"
    /\ refreshTimer = TRUE
    /\ autoCleanupEnabled \in AutoCleanupOptions
    /\ autoCleanupTimer = autoCleanupEnabled
    /\ loops = [refresh |-> 1, cleanup |-> IF autoCleanupEnabled THEN 1 ELSE 0]
    /\ maxRetryAttempts \in RetryMaxAttempts
    /\ onErrorHandler \in OnErrorOptions
    /\ retryBaseDelay \in RetryBaseDelays
    /\ retryMaxDelay \in RetryMaxDelays
    /\ early = 0
    /\ pend = <<>>
    /\ leaked = 0
    /\ nextId = 0
    /\ calls = 1
    /\ lastEvent = Event("start", "", "ok")

\* The steps of the started engine: those of Next but for the interval
\* ticks on a closed store, which take a stop() overtaking a suspended
\* start().
StartedNext ==
    \/ Call(InitCalled)
    \/ Continue(InitOpens)
    \/ Continue(InitReturns)
    \/ Call(GetCalled)
    \/ Continue(Get)
    \/ \E id \in IdsInUse, input \in ScheduleInputs, h \in HandlersInUse :
          Call(ScheduleCalled(id, input, h))
    \/ \E r \in Resumed : Continue(Schedule(r.id, r.input, r.handler))
    \/ \E id \in IdsKnown : Call(CancelCalled(id))
    \/ \E r \in Resumed : Continue(Cancel(r.id))
    \/ \E id \in IdsKnown : Call(PauseCalled(id))
    \/ \E r \in Resumed : Continue(Pause(r.id))
    \/ \E id \in IdsKnown : Call(ResumeCalled(id))
    \/ \E r \in Resumed : Continue(Resume(r.id))
    \/ Call(StartCalled)
    \/ Continue(Start)
    \/ Continue(StartTail)
    \/ Call(Stop)
    \/ Call(DestroyCalled)
    \/ Continue(Destroy)
    \/ Callback(NewEngine)
    \/ \E c \in CleanupDays, x \in CleanupDays :
          Call(CleanupAllOldJobsCalled(c, x))
    \/ \E r \in Resumed :
          Continue(CleanupAllOldJobs(r.completedOlderThanDays,
                                     r.cancelledOlderThanDays))
    \/ \E d \in CleanupDays : Call(CleanupOldJobsCalled(d))
    \/ \E r \in Resumed : Continue(CleanupOldJobs(r.cancelledOlderThanDays))
    \/ \E d \in CleanupDays : Call(CleanupCompletedJobsCalled(d))
    \/ \E r \in Resumed :
          Continue(CleanupCompletedJobs(r.completedOlderThanDays))
    \/ Call(TriggerAutoCleanupCalled)
    \/ Continue(TriggerAutoCleanup)
    \/ Callback(RefreshTick)
    \/ Callback(CleanupTick)
    \/ \E id \in Ids : Timeout(TimerFire(id))
    \/ \E id \in Ids : Timeout(OrphanFire(id))
    \/ \E id \in Ids : Resolved(HandlerSucceeds(id))
    \/ \E id \in Ids : Resolved(HandlerFails(id))
    \/ \E id \in Ids : Timeout(Retry(id))
    \/ Elapses(Tick)

StartedSpec == StartedInit /\ [][StartedNext]_vars

\* The started engine configured with a retry (retry.maxAttempts above 1),
\* an error callback that returns, and automatic cleanup.
FairInit ==
    /\ StartedInit
    /\ autoCleanupEnabled
    /\ maxRetryAttempts > 1
    /\ onErrorHandler = "returns"

\* Some suspended call of the public interface is resumed: one turn of
\* the microtask queue.
Resumption ==
    \/ Continue(InitOpens)
    \/ Continue(InitReturns)
    \/ Continue(Get)
    \/ \E r \in Resumed : Continue(Schedule(r.id, r.input, r.handler))
    \/ \E r \in Resumed : Continue(Cancel(r.id))
    \/ \E r \in Resumed : Continue(Pause(r.id))
    \/ \E r \in Resumed : Continue(Resume(r.id))
    \/ Continue(Start)
    \/ Continue(StartTail)
    \/ Continue(Destroy)
    \/ \E r \in Resumed :
          Continue(CleanupAllOldJobs(r.completedOlderThanDays,
                                     r.cancelledOlderThanDays))
    \/ \E r \in Resumed : Continue(CleanupOldJobs(r.cancelledOlderThanDays))
    \/ \E r \in Resumed :
          Continue(CleanupCompletedJobs(r.completedOlderThanDays))
    \/ Continue(TriggerAutoCleanup)

\* The event loop runs the callback of a timer that is due, and the
\* continuation of a suspended call.
FairSpec ==
    /\ FairInit /\ [][StartedNext]_vars
    /\ \A id \in Ids : WF_vars(Timeout(TimerFire(id)))
    /\ WF_vars(Resumption)


\* ------------------------------------------------------- retry backoff
\* The executor alone, over a range of retry options: the engine is
\* running and has stored the one-shot job "a" for instant 1 at instant 0;
\* its timer is armed.
BackoffInit ==
    /\ now = 0
    /\ cron_jobs = {[id |-> 1, cron_expression |-> Null, specific_time |-> 1,
                     identifier |-> "a", status |-> "active", next_run |-> 1,
                     last_run |-> Null, run_count |-> 0, updated_at |-> 0]}
    /\ handlers = [NoHandlers EXCEPT !["a"] = FirstHandler]
    /\ activeJobs = [i \in Ids |->
                       IF i = "a" THEN [deadline |-> 1, pending |-> TRUE]
                       ELSE NoTimer]
    /\ orphans = [i \in Ids |-> <<>>]
    /\ execs = [i \in Ids |-> <<>>]
    /\ isRunning = TRUE
    /\ isInitialized = TRUE
    /\ db = "open"
    /\ refreshTimer = TRUE
    /\ autoCleanupEnabled \in AutoCleanupOptions
    /\ autoCleanupTimer = autoCleanupEnabled
    /\ loops = [refresh |-> 1, cleanup |-> IF autoCleanupEnabled THEN 1 ELSE 0]
    /\ maxRetryAttempts \in BackoffMaxAttempts
    /\ onErrorHandler \in OnErrorOptions
    /\ retryBaseDelay \in BackoffBaseDelays
    /\ retryMaxDelay \in BackoffMaxDelays
    /\ early = 0
    /\ pend = <<>>
    /\ leaked = 0
    /\ nextId = 1
    /\ calls = 1
    /\ lastEvent = Event("schedule", "a", "ok")

BackoffNext ==
    \/ \E id \in Ids : Timeout(TimerFire(id))
    \/ \E id \in Ids : Resolved(HandlerSucceeds(id))
    \/ \E id \in Ids : Resolved(HandlerFails(id))
    \/ \E id \in Ids : Timeout(Retry(id))
    \/ Elapses(TickUpTo(MaxBackoffTime))

BackoffSpec == BackoffInit /\ [][BackoffNext]_vars

\* ------------------------------------------------------------ lifecycle
\* The engine as constructed, with automatic cleanup enabled or disabled,
\* under start, stop and schedule calls in any order and overlap.
LifecycleInit ==
    /\ now = 0
    /\ cron_jobs = {}
    /\ handlers = NoHandlers
    /\ activeJobs = [i \in Ids |-> NoTimer]
    /\ orphans = [i \in Ids |-> <<>>]
    /\ execs = [i \in Ids |-> <<>>]
    /\ isRunning = FALSE
    /\ isInitialized = FALSE
    /\ db = "none"
    /\ refreshTimer = FALSE
    /\ autoCleanupTimer = FALSE
    /\ loops = [refresh |-> 0, cleanup |-> 0]
    /\ autoCleanupEnabled \in AutoCleanupOptions
    /\ maxRetryAttempts = 1
    /\ onErrorHandler = "returns"
    /\ retryBaseDelay \in RetryBaseDelays
    /\ retryMaxDelay \in RetryMaxDelays
    /\ early = 0
    /\ pend = <<>>
    /\ leaked = 0
    /\ nextId = 0
    /\ calls = 0
    /\ lastEvent = Event("new", "", "")

LifecycleNext ==
    \/ Continue(InitOpens)
    \/ Continue(InitReturns)
    \/ \E id \in IdsInUse, input \in ScheduleInputs :
          Call(ScheduleCalled(id, input, FirstHandler))
    \/ \E r \in Resumed : Continue(Schedule(r.id, r.input, r.handler))
    \/ Call(StartCalled)
    \/ Continue(Start)
    \/ Continue(StartTail)
    \/ Call(Stop)
    \/ Callback(RefreshTick)
    \/ Callback(CleanupTick)
    \/ Callback(RefreshTickFails)
    \/ Callback(CleanupTickFails)
    \/ \E id \in Ids : Timeout(TimerFire(id))
    \/ \E id \in Ids : Timeout(OrphanFire(id))
    \/ \E id \in Ids : Resolved(HandlerSucceeds(id))
    \/ \E id \in Ids : Resolved(HandlerFails(id))
    \/ Elapses(Tick)

LifecycleSpec == LifecycleInit /\ [][LifecycleNext]_vars


\* -------------------------------------------------------------- restart
\* run_count of the recurring job when the previous engine was shut down.
PreRestartRunCount == 1

\* The period of the recurring job of the restart: a slot every tick, so
\* that the next slot is always within the look-ahead window and both
\* schedule() and the post-execution step arm the timer themselves.
RestartPeriod == 1

\* A new engine object on the store of a previous engine, which fired the
\* recurring job "a" at instant 0, wrote its row and was shut down (its
\* stop() closed the store).  The application has constructed the new
\* engine at some later instant and has called schedule() to register
\* the handler of "a" again; the call is suspended in ensureDatabase.
RestartInit ==
    /\ now \in Times
    /\ cron_jobs = {[id |-> 1, cron_expression |-> RestartPeriod,
                     specific_time |-> Null, identifier |-> "a",
                     status |-> "active",
                     next_run |-> CronNext(RestartPeriod, 0),
                     last_run |-> 0, run_count |-> PreRestartRunCount,
                     updated_at |-> 0]}
    /\ handlers = NoHandlers
    /\ activeJobs = [i \in Ids |-> NoTimer]
    /\ orphans = [i \in Ids |-> <<>>]
    /\ execs = [i \in Ids |-> <<>>]
    /\ isRunning = FALSE
    /\ isInitialized = FALSE
    /\ db = "none"
    /\ refreshTimer = FALSE
    /\ autoCleanupTimer = FALSE
    /\ loops = [refresh |-> 0, cleanup |-> 0]
    /\ autoCleanupEnabled \in AutoCleanupOptions
    /\ maxRetryAttempts \in {1, 2}
    /\ onErrorHandler \in {"none", "returns"}
    /\ retryBaseDelay \in RetryBaseDelays
    /\ retryMaxDelay \in RetryMaxDelays
    /\ early = 0
    /\ pend = <<[op |-> "schedule", id |-> "a",
                 input |-> [kind |-> "cron", period |-> RestartPeriod,
                            t |-> Null],
                 completedOlderThanDays |-> 0, cancelledOlderThanDays |-> 0,
                 handler |-> FirstHandler, pc |-> "ensure",
                 importing |-> TRUE, returning |-> FALSE]>>
    /\ leaked = 0
    /\ nextId = 1
    /\ calls = 1
    /\ lastEvent = Quiet

\* The steps of the new engine: the re-registering call and start()
\* calls, the interval ticks, the timers, the executions, and the clock,
\* which moves on whatever is suspended, running or due.
RestartNext ==
    \/ Continue(InitOpens)
    \/ Continue(InitReturns)
    \/ \E r \in Resumed : Continue(Schedule(r.id, r.input, r.handler))
    \/ Call(StartCalled)
    \/ Continue(Start)
    \/ Continue(StartTail)
    \/ Callback(RefreshTick)
    \/ Callback(CleanupTick)
    \/ \E id \in Ids : Timeout(TimerFire(id))
    \/ \E id \in Ids : Timeout(OrphanFire(id))
    \/ \E id \in Ids : Resolved(HandlerSucceeds(id))
    \/ \E id \in Ids : Resolved(HandlerFails(id))
    \/ \E id \in Ids : Timeout(Retry(id))
    \/ Elapses(TickUpTo(RestartHorizon))

\* The event loop runs what is queued or due, every handler call settles,
\* and the clock goes on.
RestartSpec ==
    /\ RestartInit /\ [][RestartNext]_vars
    /\ WF_vars(Resumption)
    /\ WF_vars(Callback(RefreshTick))
    /\ \A id \in Ids :
          /\ WF_vars(Timeout(TimerFire(id)))
          /\ WF_vars(Timeout(OrphanFire(id)))
          /\ WF_vars(Resolved(HandlerSucceeds(id))
                       \/ Resolved(HandlerFails(id)))
          /\ WF_vars(Timeout(Retry(id)))
    /\ WF_vars(Elapses(TickUpTo(RestartHorizon)))

\* ======================================================================
\* Properties
\* ======================================================================
HasEntry(id) == activeJobs[id] # NoTimer

\* Armed, not yet fired, not cancelled timers for id: the one activeJobs
\* holds and those it no longer references.
PendingTimers(id) ==
    (IF activeJobs[id].pending THEN 1 ELSE 0) + Len(orphans[id])

InFlight(id) == Len(execs[id])

SameRow(id) == store'[id] # NoJob /\ store'[id].id = store[id].id

\* An executeJob run of id returns or throws in this step, the process
\* going on: a pipeline in flight, or a firing whose retry loop admits no
\* attempt.
Finished(id) ==
    /\ lastEvent'.op = "finish"
    /\ lastEvent'.id = id

\* The run of id that ends in this step has got as far as the SELECT of
\* the active row: the error callback has not thrown and the store handle
\* is open.
GateReached(id) ==
    /\ Finished(id)
    /\ db = "open"
    /\ ~(lastEvent'.failed /\ onErrorHandler = "throws")

Terminal(row) == row.status \in {"cancelled", "completed"}

\* C1: for every identifier at most one executeJob run is in flight.
C1_AtMostOneExecutionInFlight ==
    \A id \in Ids : InFlight(id) <= 1

\* C2: at most one pending timer per identifier, counting every timer
\* created by scheduleJobExecution.
C2_AtMostOnePendingTimer ==
    \A id \in Ids : PendingTimers(id) <= 1

\* C3: activeJobs contains an identifier only if the store holds it with
\* status active and next_run <= now + lookAheadWindow.
C3_TimerSetOnlyActiveInWindow ==
    \A id \in Ids :
        HasEntry(id) =>
            /\ store[id].status = "active"
            /\ store[id].next_run <= now + lookAheadWindow

\* C4 (as claimed): the timer set never holds more than chunkSize entries.
C4_TimerSetNeverExceedsChunkSize ==
    Cardinality({id \in Ids : HasEntry(id)}) <= chunkSize

AfterChunkLoad ==
    \/ lastEvent.op = "refresh" /\ lastEvent.res = "ok"
    \/ lastEvent.op \in {"start", "schedule"} /\ lastEvent.res = "loaded"
    \/ lastEvent.op = "resume" /\ lastEvent.res = "true"

\* C4 (amended): immediately after a chunk load (start, resume, refresh
\* tick) the timer set holds at most chunkSize entries.
C4_ChunkLoadArmsAtMostChunkSize ==
    AfterChunkLoad => Cardinality({id \in Ids : HasEntry(id)}) <= chunkSize

C4_Witness ==
    /\ lastEvent.op = "refresh"
    /\ Cardinality({id \in Ids : HasEntry(id)}) = chunkSize
    /\ Cardinality({id \in Ids : InWindow(store[id], now)}) > chunkSize

\* C5: once a row is cancelled or completed, no cancel, pause, resume or
\* post-execution update changes its status; it can only be deleted by
\* cleanup or replaced by a new schedule call.
C5_TerminalStatusNeverChanges ==
    [][\A id \in Ids :
          (Terminal(store[id]) /\ SameRow(id)) =>
              store'[id].status = store[id].status]_vars

\* C6: when an execution of id finishes while the row is paused or
\* cancelled, the row is left as it is (status, next_run, last_run,
\* run_count) and no timer is armed for id.
C6_PauseCancelMidExecutionHonoured ==
    [][\A id \in Ids :
          (Finished(id) /\ store[id].status \in {"paused", "cancelled"}) =>
              /\ store'[id] = store[id]
              /\ activeJobs'[id].deadline = activeJobs[id].deadline
              /\ activeJobs'[id].pending => activeJobs[id].pending
              /\ Len(orphans'[id]) <= Len(orphans[id])]_vars

\* A single scheduling of id, its timer fired while the row was active,
\* pause(id) came during the handler, and the execution has returned.
C6_Witness ==
    \E id \in Ids :
        /\ nextId = 1
        /\ lastEvent.op = "finish" /\ lastEvent.id = id
        /\ lastEvent.res = "gated"
        /\ store[id].status = "paused"
        /\ store[id].run_count = 0 /\ store[id].last_run = Null
        /\ PendingTimers(id) = 0

\* An active job with a registered handler on a running engine that is
\* already due, with no timer pending and no execution in flight: the
\* chunk loader selects next_run > now only, so nothing will arm it.
Stuck(id) ==
    /\ isRunning /\ db = "open"
    /\ store[id].status = "active"
    /\ id \in Registered(handlers)
    /\ store[id].next_run <= now
    /\ PendingTimers(id) = 0
    /\ InFlight(id) = 0

\* A stuck job stays stuck until it is paused, cancelled, re-scheduled or
\* the engine is stopped: no execution of it ever starts.
StuckNeverFires ==
    [][\A id \in Ids :
          (Stuck(id) /\ SameRow(id)) =>
              /\ InFlight(id)' = 0
              /\ store'[id].run_count = store[id].run_count
              /\ (Stuck(id)' \/ store'[id].status # "active" \/ ~isRunning'
                    \/ id \notin Registered(handlers') \/ db' # "open")]_vars

\* C7: after resume(id) returns true for a paused recurring job with a
\* registered handler on a running engine, the job fires again: it is
\* never left in a state from which no execution of it can start.
C7_ResumedJobFiresAgain ==
    \A id \in Ids :
        (/\ lastEvent.op = "resume" /\ lastEvent.id = id
         /\ lastEvent.res = "true" /\ lastEvent.prev = "paused"
         /\ store[id].cron_expression # Null
         /\ id \in Registered(handlers) /\ isRunning)
        => ~Stuck(id)

\* C8: a one-shot job fires once: once its row is completed, run_count is
\* 1, no timer for the identifier remains and no handler pipeline of it
\* starts or runs.
C8_OneShotFiresOnce ==
    \A id \in Ids :
        (store[id].specific_time # Null /\ store[id].status = "completed") =>
            /\ store[id].run_count = 1
            /\ PendingTimers(id) = 0
            /\ InFlight(id) = 0
            /\ ~(lastEvent.op = "fire" /\ lastEvent.id = id
                  /\ lastEvent.res = "started")

\* C9: every completed row with a specific_time has run_count >= 1 and
\* last_run >= specific_time.
C9_CompletedOneShotRanAtItsTime ==
    \A id \in Ids :
        (store[id].status = "completed" /\ store[id].specific_time # Null) =>
            /\ store[id].run_count >= 1
            /\ store[id].last_run >= store[id].specific_time

\* C10: run_count grows by exactly 1 when the run of a firing reaches
\* its gate and the gate passes, whatever the number of attempts and the
\* outcome, and is changed by nothing else while the row is not replaced.
C10_RunCountPlusOnePerFiring ==
    [][\A id \in Ids :
          SameRow(id) =>
              store'[id].run_count =
                  store[id].run_count +
                  (IF GateReached(id) /\ store[id].status = "active"
                   THEN 1 ELSE 0)]_vars

\* A firing that used every permitted attempt and failed has been applied.
C10_Witness ==
    \E id \in Ids :
        /\ lastEvent.op = "finish" /\ lastEvent.id = id
        /\ lastEvent.res = "applied"
        /\ lastEvent.attempts = maxRetryAttempts /\ lastEvent.failed
        /\ maxRetryAttempts > 1
        /\ store[id].run_count = 1

\* C11 (as claimed): for a single firing the number of handler invocations
\* lies in 1..maxAttempts: every pipeline in flight has made between 1 and
\* maxAttempts invocations, a firing that ends in failure has made exactly
\* maxAttempts, and with maxAttempts = 1 every firing makes exactly one.
C11_HandlerInvocationsWithinMaxAttempts ==
    /\ \A id \in Ids : \A k \in 1..Len(execs[id]) :
          execs[id][k].attempt \in 1..maxRetryAttempts
    /\ lastEvent.op = "finish" =>
          /\ lastEvent.attempts \in 1..maxRetryAttempts
          /\ lastEvent.failed => lastEvent.attempts = maxRetryAttempts
          /\ maxRetryAttempts = 1 => lastEvent.attempts = 1

\* C11 (amended): with retry.maxAttempts of 1 or more the number of
\* handler invocations of a firing lies in 1..maxAttempts as claimed; with
\* retry.maxAttempts 0, which the constructor keeps, the loop body is
\* never entered: no pipeline is in flight and every firing ends with 0
\* invocations.
C11_InvocationsWithinPositiveMaxAttempts ==
    /\ maxRetryAttempts >= 1 => C11_HandlerInvocationsWithinMaxAttempts
    /\ maxRetryAttempts = 0 =>
          /\ \A id \in Ids : execs[id] = <<>>
          /\ lastEvent.op = "finish" =>
                lastEvent.attempts = 0 /\ ~lastEvent.failed

\* With retry.maxAttempts 2 a firing has ended at the success of its
\* second attempt and has been applied to the row.
C11_Witness ==
    \E id \in Ids :
        /\ maxRetryAttempts = 2
        /\ lastEvent.op = "finish" /\ lastEvent.id = id
        /\ lastEvent.attempts = 2 /\ ~lastEvent.failed
        /\ lastEvent.res = "applied"

\* What C12 asks of the step in which a run of id ends.
FailureReportedAndApplied(id) ==
    /\ ~lastEvent'.failed => lastEvent'.onError = 0
    /\ lastEvent'.failed =>
          /\ onErrorHandler # "none" => lastEvent'.onError = 1
          /\ lastEvent'.attempts = maxRetryAttempts
          /\ (store[id].status = "active" /\ db = "open") =>
                /\ store'[id].run_count = store[id].run_count + 1
                /\ store'[id].last_run = now
                /\ store[id].cron_expression # Null =>
                      store'[id].next_run > now

\* C12: when every attempt of a firing fails, onError (if configured) is
\* invoked exactly once and the post-execution update runs as after a
\* success (run_count + 1, and for a recurring job a next_run after now);
\* when an attempt succeeds, onError is not invoked for that firing.
C12_FailedFiringReportsOnceAndStillUpdates ==
    [][\A id \in Ids : Finished(id) => FailureReportedAndApplied(id)]_vars

\* The call of onError is outside every try: a callback that throws makes
\* executeJob reject before the SELECT and the UPDATE.  With a callback
\* that returns, or none, the update follows every failed firing.
FailedFiringUpdatesWhenOnErrorReturns ==
    [][\A id \in Ids :
          (Finished(id) /\ onErrorHandler # "throws") =>
              FailureReportedAndApplied(id)]_vars

\* A recurring job's firing has failed on every attempt and its row has
\* been updated.
FailedFiringUpdated ==
    \E id \in Ids :
        /\ nextId = 1
        /\ onErrorHandler = "returns"
        /\ lastEvent.op = "finish" /\ lastEvent.id = id
        /\ lastEvent.failed /\ lastEvent.onError = 1
        /\ lastEvent.res = "applied"
        /\ store[id].cron_expression # Null
        /\ store[id].run_count = 1
        /\ store[id].next_run > now

\* The step leaves the engine running with its loops, the registry and
\* the store handle as they were, and every other job's row, timers and
\* executions untouched.
EngineUntouched(id) ==
    /\ lastEvent'.op \in {"backoff", "finish"}
    /\ UNCHANGED <<isRunning, refreshTimer, autoCleanupTimer, handlers, db,
                   isInitialized>>
    /\ \A o \in Ids \ {id} :
          /\ activeJobs'[o] = activeJobs[o]
          /\ orphans'[o] = orphans[o]
          /\ execs'[o] = execs[o]
          /\ store'[o] = store[o]

\* C13: an error thrown by a handler does not leave the executor and
\* does not stop the engine: the step in which an attempt fails on a
\* running engine leaves the engine running with its loops, the registry
\* and the store handle as they were, and leaves every other job's row,
\* timers and executions untouched, so their timers still fire.
C13_HandlerErrorNeverStopsEngine ==
    [][\A id \in Ids :
          (HandlerFails(id) /\ isRunning /\ db = "open") =>
              EngineUntouched(id)]_vars

\* The handler's own error is caught by the try around the attempt; what
\* leaves the executor is the error of an onError callback that throws.
\* With a callback that returns, or none, the engine is untouched.
HandlerErrorCaughtWhenOnErrorReturns ==
    [][\A id \in Ids :
          (HandlerFails(id) /\ isRunning /\ db = "open"
             /\ onErrorHandler # "throws") => EngineUntouched(id)]_vars

\* A firing of one job has failed on every attempt while the engine runs
\* and another job's timer is pending.
FailedFiringLeftEngineRunning ==
    \E id \in Ids, o \in Ids :
        /\ o # id
        /\ onErrorHandler # "throws"
        /\ lastEvent.op = "finish" /\ lastEvent.id = id /\ lastEvent.failed
        /\ isRunning /\ refreshTimer
        /\ activeJobs[o].pending
        /\ o \in Registered(handlers)

\* An input the parser must reject: an invalid cron string, or a
\* timestamp that is not in the future.
FailsParsing(input, t) ==
    \/ input.kind = "invalid"
    \/ input.kind = "time" /\ input.t <= t

\* C14: a schedule call whose input fails parsing raises an error and
\* leaves the store, the handler registry and the timer set unchanged.
C14_InvalidScheduleChangesNothing ==
    [][\A id \in Ids, input \in ScheduleInputs, h \in Handlers :
          (Schedule(id, input, h) /\ FailsParsing(input, now)) =>
              /\ lastEvent'.res = "invalid"
              /\ UNCHANGED <<store, handlers, activeJobs, orphans, execs,
                             nextId, isRunning>>]_vars

\* A schedule call has been rejected on an engine that holds a row, a
\* handler and a pending timer, after the clock has moved.
C14_Witness ==
    \E id \in Ids :
        /\ lastEvent.op = "schedule" /\ lastEvent.id = id
        /\ lastEvent.res = "invalid"
        /\ store[id].status = "active"
        /\ id \in Registered(handlers)
        /\ activeJobs[id].pending
        /\ now > 0

\* No two rows of the table have the same identifier.
UniqueRows(table) ==
    \A r \in table, q \in table : r.identifier = q.identifier => r = q

\* C15: the store holds at most one record per identifier in every
\* reachable state, and a schedule call on an existing identifier replaces
\* the record: the row of the identifier is then the one this call
\* inserted, with the new cron_expression / specific_time, status active,
\* last_run null and run_count 0, the rows of the other identifiers are as
\* before, and the registry holds the handler passed to this call.
C15_RescheduleReplacesRecord ==
    /\ [](UniqueRows(cron_jobs))
    /\ [][\A id \in Ids, input \in ScheduleInputs, h \in Handlers :
            (/\ Schedule(id, input, h)
             /\ lastEvent'.res \in {"ok", "stored"}
             /\ store[id] # NoJob) =>
                /\ {r \in cron_jobs' : r.identifier = id} = {store'[id]}
                /\ store'[id].id \notin {r.id : r \in cron_jobs}
                /\ store'[id].cron_expression =
                      (IF input.kind = "cron" THEN input.period ELSE Null)
                /\ store'[id].specific_time =
                      (IF input.kind = "time" THEN input.t ELSE Null)
                /\ store'[id].status = "active"
                /\ store'[id].last_run = Null
                /\ store'[id].run_count = 0
                /\ handlers'[id] = h
                /\ \A o \in Ids \ {id} :
                      /\ store'[o] = store[o]
                      /\ handlers'[o] = handlers[o]]_vars

\* An identifier has been scheduled a second time, after the clock moved
\* and with another handler than the first time: its row is the second
\* one inserted, no other row is stored and the registry holds the second
\* handler.
C15_Witness ==
    \E id \in Ids :
        /\ lastEvent.op = "schedule" /\ lastEvent.id = id
        /\ lastEvent.res = "ok"
        /\ nextId = 2 /\ store[id].id = 2
        /\ cron_jobs = {store[id]}
        /\ store[id].run_count = 0 /\ store[id].last_run = Null
        /\ handlers[id] # FirstHandler /\ handlers[id] # NoHandler
        /\ now > 0

\* CONSTRAINT check_schedule_type of the table.
ExactlyOneSchedule(row) ==
    (row.cron_expression # Null) # (row.specific_time # Null)

\* C16: every stored record has exactly one of cron_expression and
\* specific_time non-null, and no operation on a record (post-execution
\* update, pause, cancel, resume) changes either column; only a new
\* schedule call, which replaces the record, sets them.
C16_ExactlyOneScheduleKind ==
    /\ [](\A id \in Ids : store[id] # NoJob => ExactlyOneSchedule(store[id]))
    /\ [][\A id \in Ids :
            SameRow(id) =>
                /\ store'[id].cron_expression = store[id].cron_expression
                /\ store'[id].specific_time = store[id].specific_time]_vars

\* A one-shot record has gone through the post-execution update while a
\* recurring record is stored beside it.
C16_Witness ==
    \E id \in Ids, o \in Ids :
        /\ lastEvent.op = "finish" /\ lastEvent.id = id
        /\ lastEvent.res = "applied"
        /\ store[id].status = "completed"
        /\ store[id].specific_time # Null /\ store[id].cron_expression = Null
        /\ store[o].cron_expression # Null /\ store[o].specific_time = Null

\* C17: after every firing of a recurring job whose gate passes, the
\* record's status is still active and the next_run just written is
\* strictly greater than the now of the post-execution update.
C17_RecurringNextRunInFuture ==
    [][\A id \in Ids :
          (/\ GateReached(id)
           /\ store[id].status = "active"
           /\ store[id].cron_expression # Null) =>
              /\ store'[id].status = "active"
              /\ store'[id].next_run > now
              /\ store'[id].last_run = now
              /\ now' = now]_vars

\* A recurring job scheduled once has fired at its slot, its handler has
\* succeeded and the row has been updated.
C17_Witness ==
    \E id \in Ids :
        /\ nextId = 1
        /\ lastEvent.op = "finish" /\ lastEvent.id = id
        /\ lastEvent.res = "applied" /\ ~lastEvent.failed
        /\ store[id].cron_expression # Null
        /\ store[id].status = "active"
        /\ store[id].last_run = now
        /\ store[id].next_run > now

\* The records a cleanup pass with the given retention must delete.
Expired(id, completedDays, cancelledDays) ==
    \/ /\ store[id].status = "completed"
       /\ store[id].updated_at < now - completedDays * DayLength
    \/ /\ store[id].status = "cancelled"
       /\ store[id].updated_at < now - cancelledDays * DayLength

\* What the step of a cleanup pass must do.
CleanupExact(completedDays, cancelledDays) ==
    LET del == {i \in Ids : Expired(i, completedDays, cancelledDays)}
    IN  /\ lastEvent'.res = "ok"
        /\ \A i \in Ids : store'[i] = (IF i \in del THEN NoJob ELSE store[i])
        /\ lastEvent'.completed =
              Cardinality({i \in del : store[i].status = "completed"})
        /\ lastEvent'.cancelled =
              Cardinality({i \in del : store[i].status = "cancelled"})

\* C18: a cleanup pass (cleanupAllOldJobs, triggerAutoCleanup, the cleanup
\* loop's tick) deletes exactly the completed records with updated_at <
\* now - completedRetention and the cancelled records with updated_at <
\* now - cancelledRetention, deletes no other record, and returns the two
\* deletion counts.
C18_CleanupDeletesExactlyExpired ==
    [][/\ \A c \in CleanupDays, x \in CleanupDays :
            CleanupAllOldJobs(c, x) => CleanupExact(c, x)
       /\ (TriggerAutoCleanup \/ CleanupTick) =>
            CleanupExact(completedJobsRetentionDays,
                         cancelledJobsRetentionDays)]_vars

\* On an open store every cleanup pass is exact.
CleanupExactWhileStoreOpen ==
    [][db = "open" =>
        /\ \A c \in CleanupDays, x \in CleanupDays :
              CleanupAllOldJobs(c, x) => CleanupExact(c, x)
        /\ (TriggerAutoCleanup \/ CleanupTick) =>
              CleanupExact(completedJobsRetentionDays,
                           cancelledJobsRetentionDays)]_vars

\* C19: once stop() has returned and until the engine is started again,
\* the refresh loop and the cleanup loop are stopped, no job timer is
\* pending and no execution begins; a second stop() changes nothing.
C19_NothingPendingWhileStopped ==
    /\ ~isRunning =>
          /\ ~refreshTimer /\ ~autoCleanupTimer
          /\ \A id \in Ids : PendingTimers(id) = 0
          /\ ~(lastEvent.op = "fire" /\ lastEvent.res = "started")
    /\ lastEvent.op = "stop" => ~isRunning

\* When stop() returns the engine is stopped, both interval fields are
\* null and the activeJobs map is empty; a timer can only be pending if
\* the map lost track of it.
StopClearsTimerSet ==
    lastEvent.op = "stop" =>
        /\ ~isRunning
        /\ ~refreshTimer /\ ~autoCleanupTimer
        /\ loops = [refresh |-> 0, cleanup |-> 0]
        /\ \A id \in Ids : ~HasEntry(id)

\* stop() on a stopped engine changes nothing.
StopIsIdempotent ==
    [][(Stop /\ lastEvent.op = "stop") =>
          UNCHANGED <<now, store, handlers, activeJobs, orphans, execs,
                      isRunning, isInitialized, db, refreshTimer,
                      autoCleanupTimer, pend, leaked, nextId, lastEvent>>]_vars

\* C20: the store handle is released by destroy() only: stop() leaves it
\* open, and no store-backed operation (schedule, start, cleanup, cancel,
\* pause, resume) fails on a closed handle.
C20_StoreStaysOpenAfterStop ==
    /\ lastEvent.op = "stop" => db # "closed"
    /\ lastEvent.op \in {"schedule", "start", "cleanupAllOldJobs",
                         "triggerAutoCleanup", "cancel", "pause", "resume"}
          => lastEvent.res # "dbclosed"

\* C21: a handler that is running when stop() is called runs to
\* completion and its post-execution update is still applied: when an
\* execution of an active job returns on a stopped engine, last_run,
\* next_run, run_count and status are written as on a running one.
C21_UpdateAppliedAfterStop ==
    [][\A id \in Ids :
          (Finished(id) /\ ~isRunning /\ store[id].status = "active") =>
              /\ lastEvent'.res = "applied"
              /\ store'[id].run_count = store[id].run_count + 1
              /\ store'[id].last_run = now
              /\ store'[id].status =
                    (IF store[id].cron_expression # Null
                     THEN "active" ELSE "completed")]_vars

\* C22: destroy() completes without error and leaves the engine stopped,
\* the store closed, the handler registry and the timer set empty and
\* isInitialized false.
C22_DestroyReleasesEverything ==
    (lastEvent.op = "destroy" /\ lastEvent.res # "stopped") =>
        /\ lastEvent.res = "ok"
        /\ ~isRunning /\ ~refreshTimer /\ ~autoCleanupTimer
        /\ db # "open"
        /\ handlers = NoHandlers
        /\ \A id \in Ids : ~HasEntry(id)
        /\ ~isInitialized

\* C23: start() on a running engine changes nothing, and after any
\* sequence of start, stop and schedule calls, overlapping start calls
\* included, at most one refresh loop and at most one cleanup loop are
\* live, each the one its field holds; the cleanup loop is live only if
\* autoCleanup.enabled.
C23_StartIdempotentOneLoopEach ==
    /\ [](/\ loops.refresh = (IF refreshTimer THEN 1 ELSE 0)
          /\ loops.cleanup = (IF autoCleanupTimer THEN 1 ELSE 0)
          /\ loops.cleanup > 0 => autoCleanupEnabled)
    /\ [][(StartCalled /\ isRunning) =>
            UNCHANGED <<now, store, handlers, activeJobs, orphans, execs,
                        isRunning, isInitialized, db, refreshTimer,
                        autoCleanupTimer, loops, pend, leaked, nextId>>]_vars

\* Two overlapping start() calls on an engine with autoCleanup.enabled
\* false: the first has created the refresh loop and no cleanup loop and
\* has returned, the second is suspended before its own tail.
C23_Witness ==
    /\ lastEvent.op = "start" /\ lastEvent.res = "ok"
    /\ Len(pend) = 1 /\ pend[1].op = "start" /\ pend[1].pc = "loops"
    /\ ~autoCleanupEnabled
    /\ isRunning
    /\ loops = [refresh |-> 1, cleanup |-> 0]

\* The same with autoCleanup.enabled true: one loop of each kind.
OverlappingStartsWithCleanup ==
    /\ lastEvent.op = "start" /\ lastEvent.res = "ok"
    /\ Len(pend) = 1 /\ pend[1].op = "start" /\ pend[1].pc = "loops"
    /\ autoCleanupEnabled
    /\ isRunning
    /\ loops = [refresh |-> 1, cleanup |-> 1]

\* C24: after cancel(id) or pause(id) returns, the stored status of id is
\* cancelled / paused and the timer set has no entry for id; cancel
\* removes id's handler from the registry, pause leaves the registry as
\* it is.
C24_CancelPauseClearTimerAndStatus ==
    [][\A id \in Ids :
          /\ (Cancel(id) /\ lastEvent'.res # "dbclosed") =>
                /\ store[id] # NoJob => store'[id].status = "cancelled"
                /\ ~HasEntry(id)'
                /\ id \notin Registered(handlers')
          /\ (Pause(id) /\ lastEvent'.res # "dbclosed") =>
                /\ store[id] # NoJob => store'[id].status = "paused"
                /\ ~HasEntry(id)'
                /\ handlers' = handlers]_vars

\* pause(id) has returned true for a job whose timer was armed: the row
\* is paused, the handler is still registered and no timer is pending.
C24_Witness ==
    \E id \in Ids :
        /\ nextId = 1
        /\ lastEvent.op = "pause" /\ lastEvent.id = id
        /\ lastEvent.res = "true" /\ lastEvent.prev = "active"
        /\ store[id].status = "paused"
        /\ store[id].next_run <= lookAheadWindow
        /\ id \in Registered(handlers)
        /\ PendingTimers(id) = 0 /\ ~HasEntry(id)

\* The outcome of a cancel / pause / resume step on id that returned:
\* true exactly when a row for id existed, and on false the store, the
\* registry and the timers of the other identifiers are as before.
ReturnsTrueIffRowExists(id) ==
    /\ lastEvent'.res = "true" <=> store[id] # NoJob
    /\ lastEvent'.res = "false" =>
          /\ store' = store
          /\ handlers' = handlers
          /\ \A j \in Ids \ {id} : activeJobs'[j] = activeJobs[j]

\* C25: cancel, pause and resume return true if and only if a record
\* with the identifier exists; on false the store, the registry and the
\* other identifiers' timers are unchanged.
C25_ReturnTrueIffRecordExists ==
    [][\A id \in Ids :
          ((Cancel(id) \/ Pause(id) \/ Resume(id))
             /\ lastEvent'.res # "dbclosed") => ReturnsTrueIffRowExists(id)]_vars

\* As C25, without the registry for cancel: the return value is true
\* exactly when a row existed, and on false the store, the other
\* identifiers' handlers and the other identifiers' timers are unchanged
\* (cancel drops id's own handler in either case).
C25_ReturnTrueIffRecordExistsOwnHandlerAside ==
    [][\A id \in Ids :
          ((Cancel(id) \/ Pause(id) \/ Resume(id))
             /\ lastEvent'.res # "dbclosed") =>
                /\ lastEvent'.res = "true" <=> store[id] # NoJob
                /\ lastEvent'.res = "false" =>
                      /\ store' = store
                      /\ \A o \in Ids \ {id} : handlers'[o] = handlers[o]
                      /\ (lastEvent'.op # "cancel" => handlers' = handlers)
                      /\ \A j \in Ids \ {id} : activeJobs'[j] = activeJobs[j]]_vars

\* cancel(id) has returned false for an identifier without a row while
\* another job has its row, its handler and a pending timer.
C25_Witness ==
    \E id \in Ids : \E j \in Ids \ {id} :
        /\ lastEvent.op = "cancel" /\ lastEvent.id = id
        /\ lastEvent.res = "false"
        /\ store[id] = NoJob
        /\ store[j] # NoJob /\ store[j].status = "active"
        /\ j \in Registered(handlers)
        /\ PendingTimers(j) = 1

\* Re-registering a recurring job on an engine that is not running: the
\* step of schedule that writes the row replaces the previous engine's
\* row by a new one, active, with run_count 0 and a next_run after the
\* instant of the write, and registers the handler.
ReRegisteringReplacesRow ==
    [][\A id \in Ids :
          (/\ lastEvent'.op = "schedule" /\ lastEvent'.id = id
           /\ lastEvent'.res = "stored"
           /\ store'[id].cron_expression # Null)
             => /\ id \in Registered(handlers')
                /\ store'[id].status = "active"
                /\ store'[id].run_count = 0
                /\ store'[id].next_run > now]_vars

\* A firing of the re-registered job has ended with the handler invoked
\* and run_count above its value before the restart.
RunCountAdvanced ==
    /\ lastEvent.op = "finish" /\ lastEvent.id = "a"
    /\ lastEvent.attempts > 0
    /\ lastEvent.res = "applied"
    /\ store["a"].run_count > PreRestartRunCount

\* C26: restart recovers the schedule.  With a recurring job persisted by
\* an engine that has been shut down, a new engine on the same store that
\* registers the job's handler again and starts eventually ends a firing
\* of the job in which the handler was invoked, with the row's run_count
\* above its value before the restart.  Over the instants 0..RestartHorizon
\* of the clock: that firing ends, or the clock reaches RestartHorizon
\* with the job not stuck (its timer pending, an execution in flight, or
\* its next_run still ahead).
C26_RestartRecoversSchedule ==
    <>(RunCountAdvanced \/ (now = RestartHorizon /\ ~Stuck("a")))

\* The re-registered job on the new engine, running with its refresh loop
\* live, is stuck before any firing of it has ended: its row is the one
\* schedule() wrote, with run_count 0.
RestartedJobStuck ==
    /\ Stuck("a")
    /\ loops.refresh = 1
    /\ pend = <<>>
    /\ store["a"].id = 2
    /\ store["a"].run_count = 0

\* The timeout of id is armed and its deadline has been reached: its
\* callback is due and has not run yet.
OverdueTimeout(id) ==
    /\ activeJobs[id].pending
    /\ activeJobs[id].deadline <= now

\* A chunk load that runs while the timeout of the re-registered job is
\* due, from start() or from the refresh interval's callback, cancels
\* the timeout and does not arm it again: the row's next_run is not
\* after the instant of the load.
LoadCancelsOverdueTimeout ==
    [][(/\ \/ lastEvent'.op = "refresh"
           \/ (lastEvent'.op \in {"start", "schedule"}
                 /\ lastEvent'.res = "loaded")
        /\ OverdueTimeout("a")
        /\ store["a"].next_run <= now)
          => ~activeJobs'["a"].pending]_vars

\* The firing of the re-registered job that takes run_count past its value
\* before the restart has ended on the running engine.
RestartedJobAdvanced ==
    /\ RunCountAdvanced
    /\ store["a"].id = 2
    /\ store["a"].run_count = PreRestartRunCount + 1
    /\ "a" \in Registered(handlers)
    /\ isRunning /\ loops.refresh = 1

\* An active job with a registered handler on a running engine whose
\* next_run is in the look-ahead window, with no timer and no execution,
\* because the chunk of the loader is filled by earlier rows, which are
\* armed: a chunk load in this state arms the same rows again.
LeftOut(id) ==
    /\ isRunning /\ db = "open"
    /\ id \in Registered(handlers)
    /\ InWindow(store[id], now)
    /\ id \notin Chunk(store, now)
    /\ \A j \in Chunk(store, now) : j \in Registered(handlers) /\ activeJobs[j].pending
    /\ PendingTimers(id) = 0
    /\ InFlight(id) = 0

\* C27: when more jobs are due in the window than chunkSize, none is left
\* permanently unarmed: a job the chunk load left out does not come due
\* in a state from which nothing arms it (see StuckNeverFires).
C27_JobsBeyondChunkStillFire ==
    [][\A id \in Ids : (Tick /\ LeftOut(id)) => ~Stuck(id)']_vars

\* The activeJobs map right after a chunk load: its keys are the rows of
\* the chunk that have a handler, each armed for its row's next_run.
MapIsChunk ==
    /\ {id \in Ids : HasEntry(id)} = Chunk(store, now) \cap Registered(handlers)
    /\ \A id \in Ids :
          HasEntry(id) =>
              activeJobs[id] = [deadline |-> store[id].next_run,
                                pending |-> TRUE]

\* C28: immediately after a chunk load the timer set is exactly the
\* identifiers with a registered handler among the first chunkSize active
\* rows with now < next_run <= now + lookAheadWindow, and every timer
\* that was pending before the load has been cancelled: the timers of
\* the chunk are the only ones pending.
C28_ChunkLoadTimerSetExact ==
    [][AfterChunkLoad' =>
          /\ MapIsChunk'
          /\ \A id \in Ids :
                PendingTimers(id)' = IF HasEntry(id)' THEN 1 ELSE 0]_vars

\* C29: a chunk load (refresh tick, start, resume) cancels a pending timer
\* only for a job it re-arms: an active job with a registered handler
\* whose timer, set for the row's next_run, is pending, due or not, still
\* has a pending timer after the load.
C29_ChunkLoadKeepsPendingFirings ==
    [][\A id \in Ids :
          (/\ AfterChunkLoad'
           /\ activeJobs[id].pending
           /\ activeJobs[id].deadline = store[id].next_run
           /\ store[id].status = "active"
           /\ id \in Registered(handlers)
           /\ store'[id] = store[id])
          => activeJobs'[id].pending]_vars

\* C30: every pending timer in the timer set has the deadline its row's
\* next_run gives, in every reachable state, re-scheduling included.
C30_PendingTimerMatchesNextRun ==
    \A id \in Ids :
        activeJobs[id].pending =>
            activeJobs[id].deadline = store[id].next_run

\* C31: when a timer fires for an identifier without a registered
\* handler the executor does nothing: no row changes, the registry is
\* unchanged, no execution starts and no timer is armed.
C31_FiringWithoutHandlerIsNoop ==
    [][\A id \in Ids :
          ((TimerFire(id) \/ OrphanFire(id)) /\ id \notin Registered(handlers)) =>
              /\ lastEvent'.res = "nohandler"
              /\ store' = store
              /\ handlers' = handlers
              /\ execs' = execs
              /\ \A j \in Ids : PendingTimers(j)' <= PendingTimers(j)]_vars

\* A timer of an identifier without a handler has fired while its row is
\* still stored.
C31_Witness ==
    \E id \in Ids :
        /\ lastEvent.op = "fire" /\ lastEvent.id = id
        /\ lastEvent.res = "nohandler"
        /\ id \notin Registered(handlers)
        /\ store[id] # NoJob
        /\ InFlight(id) = 0

\* The row of id is recurring with next_run inside the look-ahead window.
RecurringInWindow(row, t) ==
    row.cron_expression # Null /\ row.next_run <= t + lookAheadWindow

\* C32: after a post-execution update the timer set holds a timer for the
\* identifier, set for the new next_run, if and only if the job is
\* recurring and the new next_run <= now + lookAheadWindow; otherwise the
\* identifier is absent from the timer set.
C32_RearmIffRecurringInWindow ==
    [][\A id \in Ids :
          (Finished(id) /\ lastEvent'.res = "applied") =>
              IF RecurringInWindow(store'[id], now)
              THEN activeJobs'[id] = [deadline |-> store'[id].next_run,
                                      pending |-> TRUE]
              ELSE ~HasEntry(id)']_vars

\* A recurring job has been updated and re-armed.
C32_WitnessArmed ==
    \E id \in Ids :
        /\ lastEvent.op = "finish" /\ lastEvent.id = id
        /\ lastEvent.res = "applied"
        /\ store[id].cron_expression # Null
        /\ activeJobs[id].pending

\* A recurring job has been updated with a next_run beyond the window,
\* and has no entry in the timer set.
C32_Witness ==
    \E id \in Ids :
        /\ lastEvent.op = "finish" /\ lastEvent.id = id
        /\ lastEvent.res = "applied"
        /\ store[id].cron_expression # Null
        /\ store[id].next_run > now + lookAheadWindow
        /\ ~HasEntry(id)

\* C33: a successful schedule(input, id, handler) leaves a row for id with
\* status active, run_count 0 and last_run null, the handler registered,
\* a timer armed for id if and only if next_run <= now + lookAheadWindow,
\* and the engine running.
C33_ScheduleOutcome ==
    \A id \in Ids :
        (/\ lastEvent.op = "schedule" /\ lastEvent.id = id
         /\ lastEvent.res \in {"ok", "started"}) =>
            /\ store[id].status = "active"
            /\ store[id].run_count = 0
            /\ store[id].last_run = Null
            /\ id \in Registered(handlers)
            /\ isRunning
            /\ HasEntry(id) <=> store[id].next_run <= now + lookAheadWindow

\* min(retry.maxDelay, retry.baseDelay * 2^(k-1)), written out.
BackoffDelay(k) ==
    IF retryBaseDelay * (2 ^ (k - 1)) < retryMaxDelay
    THEN retryBaseDelay * (2 ^ (k - 1))
    ELSE retryMaxDelay

\* C34: the sleep after failed attempt k, 1 <= k < maxAttempts, lasts
\* min(retry.maxDelay, retry.baseDelay * 2^(k-1)); the delays do not
\* decrease with k and never exceed maxDelay, and no sleep follows the
\* last permitted attempt.
C34_BackoffDelay ==
    /\ [](\A k \in 1..(maxRetryAttempts - 1) :
            /\ RetryDelay(k) = BackoffDelay(k)
            /\ RetryDelay(k) <= retryMaxDelay
            /\ k > 1 => RetryDelay(k - 1) <= RetryDelay(k))
    /\ [](\A id \in Ids : \A n \in 1..Len(execs[id]) :
            /\ execs[id][n].attempt <= maxRetryAttempts
            /\ execs[id][n].phase = "sleep" =>
                  /\ execs[id][n].attempt < maxRetryAttempts
                  /\ execs[id][n].wakeAt <= now + retryMaxDelay)
    /\ [][\A id \in Ids :
            (HandlerFails(id) /\ lastEvent'.op = "backoff") =>
                \E n \in 1..Len(execs[id]) :
                    /\ execs[id][n].phase = "handler"
                    /\ execs'[id][n].phase = "sleep"
                    /\ execs'[id][n].wakeAt =
                          now + BackoffDelay(execs[id][n].attempt)]_vars

\* The third attempt has failed and the executor sleeps for maxDelay,
\* which is less than baseDelay * 4 and more than the sleep before it.
C34_Witness ==
    /\ lastEvent.op = "backoff"
    /\ Len(execs["a"]) = 1
    /\ execs["a"][1].phase = "sleep"
    /\ execs["a"][1].attempt = 3
    /\ retryBaseDelay * 2 < retryMaxDelay
    /\ retryMaxDelay < retryBaseDelay * 4
    /\ execs["a"][1].wakeAt = now + retryMaxDelay

\* A cleanup tick that fails changes neither the engine nor the store and
\* reports { completed: 0, cancelled: 0 }.
CleanupErrorContained ==
    [][CleanupTickFails =>
          /\ isRunning' = isRunning /\ loops' = loops
          /\ store' = store
          /\ lastEvent'.completed = 0 /\ lastEvent'.cancelled = 0]_vars

\* C35: a store failure during a refresh tick or a cleanup tick is
\* contained: the engine stays running, the loops stay live and the
\* error does not leave the tick; a failing cleanup reports
\* { completed: 0, cancelled: 0 } and deletes nothing.
C35_LoopErrorsContained ==
    /\ [][RefreshTickFails =>
            /\ isRunning' = isRunning /\ loops' = loops
            /\ lastEvent'.op = "refresh"
            /\ lastEvent'.res # "unhandled"]_vars
    /\ CleanupErrorContained

\* An execution of id is suspended, in a handler call or a backoff sleep.
Suspended(id) == InFlight(id) > 0

\* The timer of j is due and j has nothing in flight.
DueTimer(j) ==
    /\ activeJobs[j].pending
    /\ activeJobs[j].deadline <= now
    /\ InFlight(j) = 0

\* C36: while an execution of one identifier is suspended in a handler
\* call or a backoff sleep, however long, the refresh tick and the cleanup
\* tick can run, and the due timer of another identifier fires (unless it
\* is cancelled or replaced first).
C36_SuspendedJobBlocksNothing ==
    /\ [](\A id \in Ids :
            (Suspended(id) /\ pend = <<>>) =>
                /\ (loops.refresh > 0 /\ db = "open")
                      => ENABLED Callback(RefreshTick)
                /\ (loops.cleanup > 0 /\ db = "open")
                      => ENABLED Callback(CleanupTick)
                /\ \A j \in Ids \ {id} :
                      DueTimer(j) => ENABLED Timeout(TimerFire(j)))
    /\ \A id \in Ids : \A j \in Ids \ {id} :
          (Suspended(id) /\ DueTimer(j))
              ~> ~(activeJobs[j].pending /\ activeJobs[j].deadline <= now)

\* While an execution of one identifier sleeps between attempts, the
\* handler of another identifier has been started by its timer.
C36_Witness ==
    \E id \in Ids : \E j \in Ids \ {id} :
        /\ InFlight(id) = 1 /\ execs[id][1].phase = "sleep"
        /\ lastEvent.op = "fire" /\ lastEvent.id = j
        /\ lastEvent.res = "started"
        /\ InFlight(j) = 1
        /\ ~activeJobs[j].pending

\* A handler attempt of id starts in this step: the first attempt of a
\* firing, or a retry attempt after a backoff sleep.
AttemptStarts(id) ==
    \/ (TimerFire(id) \/ OrphanFire(id)) /\ lastEvent'.res = "started"
    \/ Retry(id)

\* C37: no handler attempt of an identifier starts while its stored
\* status is paused, cancelled or completed.
C37_NoAttemptWhileNotActive ==
    [][\A id \in Ids :
          AttemptStarts(id) =>
              store[id].status \notin {"paused", "cancelled", "completed"}]_vars

\* An execution of id that began under another row of id (the identifier
\* has been re-scheduled since its timer fired) returns in this step.
StaleExecutionReturns(id) ==
    \E k \in 1..Len(execs[id]) :
        /\ lastEvent'.op = "finish" /\ lastEvent'.id = id
        /\ execs'[id] = RemoveAt(execs[id], k)
        /\ store[id] # NoJob
        /\ execs[id][k].firedFor # store[id].id

\* C38: a post-execution update applies only to the scheduling that
\* fired: when an execution that was in flight while its identifier was
\* re-scheduled returns, the new row is not modified and no timer is
\* armed or dropped.
C38_UpdateOnlyOwnScheduling ==
    [][\A id \in Ids :
          StaleExecutionReturns(id) =>
              /\ store' = store
              /\ activeJobs' = activeJobs
              /\ orphans' = orphans]_vars

\* C39: a start() call that fails leaves the engine not running, and
\* with no call in flight isRunning is true only if the refresh loop is
\* active.
C39_FailedStartLeavesEngineStopped ==
    /\ (lastEvent.op = "start" /\ lastEvent.res = "dbclosed")
          => ~isRunning
    /\ (isRunning /\ pend = <<>>) => (refreshTimer /\ loops.refresh > 0)

\* C40: the store is opened at most once per init/destroy cycle: init()
\* on an initialised driver changes nothing, and overlapping init() calls
\* leave a single open handle, the one this.db refers to.
C40_StoreOpenedOncePerCycle ==
    /\ [](leaked = 0)
    /\ [][(InitCalled /\ isInitialized) =>
            UNCHANGED <<db, leaked, pend, isInitialized>>]_vars

====
